---- MODULE Spec2Model ----
(***************************************************************************)
(* A model of the metered sentiment-analysis proxy: the Balance Ledger     *)
(* (services/balanceService.js), the Result Cache (redis), and the request *)
(* orchestrator of server/app-sentiment.js (POST /api/analyze, POST        *)
(* /api/batch with processText).                                           *)
(*                                                                         *)
(* Money is counted in integer units of 1e-7 USD, so that a cost rounded   *)
(* to 6 decimals is a multiple of 10 units and the 10% cache-hit fee of    *)
(* such a cost is a whole number of units.                                 *)
(*                                                                         *)
(* Every `await` of the source is a scheduling point: a task is a running  *)
(* async call, its pc names the await it is suspended at, and one action   *)
(* runs the code from one await to the next.                               *)
(***************************************************************************)
EXTENDS Integers, Sequences, FiniteSets, TLC

(***************************************************************************)
(* Bounds of the model                                                     *)
(***************************************************************************)
NTasks == 2
MaxFailures == 1

Tasks == 1..NTasks

(***************************************************************************)
(* Program constants                                                       *)
(***************************************************************************)
DEFAULT_MODEL == <<"gpt-3.5-turbo-0125">>
GPT4 == <<"gpt-4">>
BATCH_LIMIT == 100
DEFAULT_TTL == 86400
NEWS_TTL == 3600
REFERENCE_TTL == 604800
NEGATIVE_TTL == 43200

\* tokenPricing, per token, in units (USD per 1000 tokens * 1e7 / 1000)
KnownModels == {<<"gpt-3.5-turbo-0125">>, <<"gpt-4-turbo">>, <<"gpt-4">>, <<"gpt-3.5-turbo">>}
tokenPricing(m) ==
    CASE m = <<"gpt-3.5-turbo-0125">> -> [input |-> 5, output |-> 15]
      [] m = <<"gpt-4-turbo">>        -> [input |-> 100, output |-> 300]
      [] m = <<"gpt-4">>              -> [input |-> 300, output |-> 600]
      [] m = <<"gpt-3.5-turbo">>      -> [input |-> 5, output |-> 15]

\* tokenPricing is an object literal: these names are found on its prototype, and
\* what is found there is truthy and has neither an input nor an output property
InheritedProperties == {<<"constructor">>, <<"toString">>, <<"__proto__">>}

\* tokenPricing[model] || tokenPricing[DEFAULT_MODEL]; defined = FALSE: the rates
\* read from it are undefined
modelPricing(m) ==
    IF m \in KnownModels THEN tokenPricing(m) @@ [defined |-> TRUE]
    ELSE IF m \in InheritedProperties THEN [input |-> 0, output |-> 0, defined |-> FALSE]
    ELSE tokenPricing(DEFAULT_MODEL) @@ [defined |-> TRUE]

(***************************************************************************)
(* Input domains                                                           *)
(***************************************************************************)
Hosts == {"a.com", "b.com"}
NoHost == ""
\* a text is a sequence of characters; <<>> is the empty (or missing) text
Texts == {<<>>, <<"a">>, <<" ", "a">>}
Models == {DEFAULT_MODEL}
Amounts == {0, 40, 60}
AddAmounts == {0, 60}
Usages == {[prompt_tokens |-> 0, completion_tokens |-> 0],
           [prompt_tokens |-> 4, completion_tokens |-> 2],
           [prompt_tokens |-> 8, completion_tokens |-> 4]}

(***************************************************************************)
(* Pure helpers                                                            *)
(***************************************************************************)
CeilDiv(a, b) == (a + b - 1) \div b

IsSpace(c) == c \in {" ", "\t", "\n"}

RECURSIVE TrimLeft(_)
TrimLeft(s) == IF s # <<>> /\ IsSpace(Head(s)) THEN TrimLeft(Tail(s)) ELSE s

RECURSIVE TrimRight(_)
TrimRight(s) ==
    IF s # <<>> /\ IsSpace(s[Len(s)]) THEN TrimRight(SubSeq(s, 1, Len(s) - 1)) ELSE s

\* .replace(/\s+/g, ' ')
RECURSIVE CollapseSpaces(_)
CollapseSpaces(s) ==
    IF s = <<>> THEN <<>>
    ELSE IF IsSpace(Head(s))
         THEN <<" ">> \o CollapseSpaces(TrimLeft(s))
         ELSE <<Head(s)>> \o CollapseSpaces(Tail(s))

\* .replace(/[‘’]/g, "'").replace(/[“”]/g, '"')
NormalizeQuote(c) ==
    IF c \in {"\\u2018", "\\u2019"} THEN "'"
    ELSE IF c \in {"\\u201C", "\\u201D"} THEN "\""
    ELSE c

cleanString(text) ==
    IF text = <<>> THEN <<>>
    ELSE LET t == CollapseSpaces(TrimRight(TrimLeft(text)))
         IN  [i \in 1..Len(t) |-> NormalizeQuote(t[i])]

\* the digest is modelled as injective on its input string `${text}|${model}`
generateCacheKey(text, model) == text \o <<"|">> \o model

\* the six amounts calculateCost rounds
CostFields == {"inputCost", "outputCost", "totalCost",
               "inputPrice", "outputPrice", "totalPrice"}

\* parseFloat(x.toFixed(6)) of x4 quarter units: the nearest multiple of 10 units.
\* A decimal tie (x4 % 40 = 20) is no tie of the double that holds it; the double
\* lies above or below the tie, and `up` says which.
toFixed6(x4, up) ==
    LET q == x4 \div 40
        r == x4 % 40
    IN  IF r < 20 THEN q * 10
        ELSE IF r > 20 THEN (q + 1) * 10
        ELSE IF up THEN (q + 1) * 10 ELSE q * 10

\* calculateCost(usage, model), up[f] the side of the tie of amount f; nan: the
\* rates are undefined, the six amounts are NaN
calculateCostRounded(usage, model, up) ==
    LET p == modelPricing(model)
        inputCost   == 4 * usage.prompt_tokens * p.input
        outputCost  == 4 * usage.completion_tokens * p.output
        totalCost   == inputCost + outputCost
        inputPrice  == (inputCost \div 4) + inputCost
        outputPrice == (outputCost \div 4) + outputCost
        totalPrice  == inputPrice + outputPrice
    IN  [inputCost   |-> toFixed6(inputCost, up["inputCost"]),
         outputCost  |-> toFixed6(outputCost, up["outputCost"]),
         totalCost   |-> toFixed6(totalCost, up["totalCost"]),
         inputPrice  |-> toFixed6(inputPrice, up["inputPrice"]),
         outputPrice |-> toFixed6(outputPrice, up["outputPrice"]),
         totalPrice  |-> toFixed6(totalPrice, up["totalPrice"]),
         nan         |-> ~p.defined]

\* the cost amounts of calculateCost; the usages of the request path make no tie
\* of them
calculateCost(usage, model) ==
    LET c == calculateCostRounded(usage, model, [f \in CostFields |-> TRUE])
    IN  [inputCost |-> c.inputCost, outputCost |-> c.outputCost,
         totalCost |-> c.totalCost]

\* Math.ceil(text.length / 4) tokens at (input + output) per token
estimateCost(text, model) ==
    CeilDiv(Len(text), 4) * (modelPricing(model).input + modelPricing(model).output)

(***************************************************************************)
(* State                                                                   *)
(***************************************************************************)
VARIABLES
    hostBalances,   \* HostBalance collection: host -> document (exists = FALSE: none)
    transactions,   \* BalanceTransaction collection, in insertion order; _id = index
    redis,          \* the key/value store: a function from the keys present
    requests,       \* analytics events recorded by recordRequest
    task,           \* the running async calls and their locals
    batch,          \* the POST /api/batch request in flight, if any
    failures,       \* number of injected store / network failures so far
    fresh,          \* history: keys whose entry was written by a miss that
                    \* returned 200 and has not expired or been deleted since
    stats,          \* DailyStats, HourlyStats and HostStats rollups of each host
    cacheAdmin,     \* the DELETE /api/cache request in flight, if any
    probe           \* a pure function's arguments and the value it returned

vars == <<hostBalances, transactions, redis, requests, task, batch, failures, fresh,
          stats, cacheAdmin, probe>>

NoDoc == [exists |-> FALSE, balance |-> 0, totalCreditsAdded |-> 0,
          totalCreditsUsed |-> 0, active |-> FALSE]
NoCheck == [sufficient |-> FALSE, balance |-> 0, hostExists |-> FALSE,
            active |-> FALSE, error |-> "none"]
NoDeduction == [called |-> FALSE, success |-> FALSE, balance |-> 0, error |-> "none"]
NoResult == [valid |-> FALSE, hasIntents |-> FALSE, intents |-> {}, sentiment |-> "neutral",
             score |-> 0, usage |-> [prompt_tokens |-> 0, completion_tokens |-> 0],
             cost |-> [inputCost |-> 0, outputCost |-> 0, totalCost |-> 0],
             host |-> NoHost, model |-> <<>>]
NoBody == [error |-> "none", details |-> "none", balance |-> 0, estimatedCost |-> 0,
           hostExists |-> FALSE, active |-> FALSE, cached |-> FALSE,
           balanceRemaining |-> 0, result |-> NoResult]
\* history of the calls a task made (not program state)
NoTrace == [checks |-> <<>>, deducts |-> <<>>, cacheGets |-> 0, cacheSets |-> 0,
            classifier |-> 0, analytics |-> 0, fresh |-> FALSE, live |-> FALSE,
            saves |-> 0, hasRead |-> FALSE, balanceRead |-> 0, recorder |-> "none"]

IdleTask == [op |-> "idle", pc |-> "idle", host |-> NoHost, text |-> <<>>, model |-> <<>>,
             key |-> <<>>, estimatedCost |-> 0, amount |-> 0, reference |-> <<>>,
             active |-> FALSE, txId |-> 0, doc |-> NoDoc, newBalance |-> 0,
             balanceCheck |-> NoCheck, deduction |-> NoDeduction, cached |-> FALSE,
             result |-> NoResult, ttl |-> 0, status |-> 0, body |-> NoBody,
             success |-> FALSE, error |-> "none", tr |-> NoTrace]

NoSummary == [totalTexts |-> 0, successful |-> 0, failed |-> 0,
              errors |-> [balanceErrors |-> 0, otherErrors |-> 0]]
NoBatch == [state |-> "none", isArray |-> FALSE, ntexts |-> 0, items |-> <<>>,
            status |-> 0, nresults |-> 0, summary |-> NoSummary]

\* a rollup document before its first upsert, and the three rollups of a host
NoRollup == [requests |-> 0, cacheHits |-> 0, cacheMisses |-> 0]
NoStats == [daily |-> NoRollup, hourly |-> NoRollup, host |-> NoRollup]

\* before: history, the keys present when the request arrived
NoCacheAdmin == [state |-> "none", mode |-> "none", key |-> <<>>, pattern |-> <<>>,
                 keys |-> {}, before |-> {}, status |-> 0, success |-> FALSE]
\* CACHE_TTL is process.env.CACHE_TTL, 0 when it is not set
NoProbe == [fn |-> "none", args |-> <<>>, out |-> <<>>, done |-> FALSE, CACHE_TTL |-> 0]

\* process.env.CACHE_TTL || 86400
defaultTTL == IF probe.CACHE_TTL # 0 THEN probe.CACHE_TTL ELSE DEFAULT_TTL

\* variant: the negative-sentiment rule tried before the intent rules
determineTTLNegativeFirst(result) ==
    IF result.sentiment = "negative" /\ result.score < -5 THEN NEGATIVE_TTL
    ELSE IF "news" \in result.intents \/ "current_events" \in result.intents THEN NEWS_TTL
    ELSE IF "factual" \in result.intents \/ "reference" \in result.intents THEN REFERENCE_TTL
    ELSE defaultTTL

\* scores are in tenths: result.sentiment.score < -0.5
determineTTL(result) ==
    IF "news" \in result.intents \/ "current_events" \in result.intents THEN NEWS_TTL
    ELSE IF "factual" \in result.intents \/ "reference" \in result.intents THEN REFERENCE_TTL
    ELSE IF result.sentiment = "negative" /\ result.score < -5 THEN NEGATIVE_TTL
    ELSE defaultTTL

\* The stores outlive the process: at start the ledger is empty, or holds a
\* host that an earlier addCredits(host, 60) created.
FundedHost == [exists |-> TRUE, balance |-> 60, totalCreditsAdded |-> 60,
               totalCreditsUsed |-> 0, active |-> TRUE]
FundingTransaction == [host |-> "a.com", amount |-> 60, type |-> "add", balanceAfter |-> 60,
                       reference |-> <<>>, by |-> 0]

Init ==
    /\ \/ /\ hostBalances = [h \in Hosts |-> NoDoc]
          /\ transactions = <<>>
       \/ /\ hostBalances = [h \in Hosts |-> IF h = "a.com" THEN FundedHost ELSE NoDoc]
          /\ transactions = <<FundingTransaction>>
    /\ redis = <<>>
    /\ requests = {}
    /\ task = [t \in Tasks |-> IdleTask]
    /\ batch = NoBatch
    /\ failures = 0
    /\ fresh = {}
    /\ stats = [h \in Hosts |-> NoStats]
    /\ cacheAdmin = NoCacheAdmin
    /\ probe = NoProbe

\* a store or network operation either succeeds or (within the budget) fails
Outcome(ok) ==
    /\ ok \/ failures < MaxFailures
    /\ failures' = IF ok THEN failures ELSE failures + 1

(***************************************************************************)
(* Continuations: the synchronous code that runs when an awaited call      *)
(* returns, up to the next await.  They are functions of the task record.  *)
(***************************************************************************)

\* an exception escaping the handler body: the catch of POST /api/analyze
\* answers 500; processText has no catch, so its promise is rejected
Throw(tk, details) ==
    IF tk.op = "item"
    THEN [tk EXCEPT !.pc = "rejected"]
    ELSE [tk EXCEPT !.pc = "done", !.status = 500,
                    !.body = [NoBody EXCEPT !.error = "An error occurred during analysis",
                                            !.details = details]]

\* variant: the active flag is not looked at
CheckResultIgnoringActive(doc, requiredAmount) ==
    IF ~doc.exists
    THEN [sufficient |-> FALSE, balance |-> 0, hostExists |-> FALSE, active |-> FALSE,
          error |-> "Host not registered in the system"]
    ELSE [sufficient |-> doc.balance >= requiredAmount, balance |-> doc.balance,
          hostExists |-> TRUE, active |-> TRUE,
          error |-> IF doc.balance >= requiredAmount THEN "none" ELSE "Insufficient balance"]

\* what checkBalance answers for the document it read
CheckResult(doc, requiredAmount) ==
    IF ~doc.exists
    THEN [sufficient |-> FALSE, balance |-> 0, hostExists |-> FALSE, active |-> FALSE,
          error |-> "Host not registered in the system"]
    ELSE IF ~doc.active
    THEN [sufficient |-> FALSE, balance |-> doc.balance, hostExists |-> TRUE,
          active |-> FALSE, error |-> "Host account is inactive"]
    ELSE [sufficient |-> doc.balance >= requiredAmount, balance |-> doc.balance,
          hostExists |-> TRUE, active |-> TRUE,
          error |-> IF doc.balance >= requiredAmount THEN "none" ELSE "Insufficient balance"]

CheckError == [sufficient |-> FALSE, balance |-> 0, hostExists |-> FALSE, active |-> FALSE,
               error |-> "Error checking balance"]

\* variant: only an unknown host is turned away
RejectedUnknownHostOnly(bc) == ~bc.hostExists

\* variant: no request is turned away
RejectedNever(bc) == FALSE

\* if (!balanceCheck.sufficient)
Rejected(bc) == ~bc.sufficient

\* the code after `await balanceService.checkBalance(host, estimatedCost)`
AfterCheck(tk, bc) ==
    LET tk1 == [tk EXCEPT !.balanceCheck = bc,
                          !.tr.checks = Append(@, [host |-> tk.host,
                                                   required |-> tk.estimatedCost,
                                                   sufficient |-> bc.sufficient])]
        payment == [NoBody EXCEPT !.error = "Payment required", !.details = bc.error,
                                  !.balance = bc.balance,
                                  !.estimatedCost = tk.estimatedCost,
                                  !.hostExists = bc.hostExists, !.active = bc.active]
    IN  IF tk.op = "checkBalance"
        THEN [tk1 EXCEPT !.pc = "done", !.success = bc.sufficient, !.error = bc.error]
        ELSE IF Rejected(bc)
        THEN IF tk.op = "item"
             THEN [tk1 EXCEPT !.pc = "returned", !.body = payment]
             ELSE [tk1 EXCEPT !.pc = "done", !.status = 402, !.body = payment]
        ELSE [tk1 EXCEPT !.pc = "cache_get",
                         !.key = generateCacheKey(cleanString(tk.text), tk.model)]

\* checkBalance up to its first await
CheckCall(tk) ==
    IF tk.host = NoHost
    THEN AfterCheck(tk, [CheckError EXCEPT !.error = "Host identifier required"])
    ELSE [tk EXCEPT !.pc = "cb_find"]

\* variant: a failed deduction aborts the request
AfterDeductFatal(tk, r) ==
    LET tk1 == [tk EXCEPT !.deduction = r]
    IN  IF tk.op = "deductCredits"
        THEN [tk1 EXCEPT !.pc = "done", !.success = r.success, !.error = r.error]
        ELSE IF ~r.success
        THEN Throw(tk1, r.error)
        ELSE IF tk.cached
        THEN [tk1 EXCEPT !.pc = "an_rec"]
        ELSE IF ~tk.result.hasIntents
        THEN Throw(tk1, "Cannot read properties of undefined")
        ELSE [tk1 EXCEPT !.pc = "cache_set", !.ttl = determineTTL(tk.result)]

\* the code after `await balanceService.deductCredits(...)`
AfterDeduct(tk, r) ==
    LET tk1 == [tk EXCEPT !.deduction = r]
    IN  IF tk.op = "deductCredits"
        THEN [tk1 EXCEPT !.pc = "done", !.success = r.success, !.error = r.error]
        ELSE IF tk.cached
        THEN [tk1 EXCEPT !.pc = "an_rec"]
        ELSE IF ~tk.result.hasIntents
        THEN Throw(tk1, "Cannot read properties of undefined")   \* determineTTL(result)
        ELSE [tk1 EXCEPT !.pc = "cache_set", !.ttl = determineTTL(tk.result)]

DeductFailed(error) == [called |-> TRUE, success |-> FALSE, balance |-> 0, error |-> error]

\* variant: only a negative amount is invalid
InvalidAmountNegativeOnly(amount) == amount < 0

\* if (!amount || amount <= 0)
InvalidAmount(amount) == amount <= 0

\* deductCredits up to its first await
DeductCall(tk, amount, reference) ==
    LET tk1 == [tk EXCEPT !.amount = amount, !.reference = reference,
                          !.tr.deducts = Append(@, [host |-> tk.host, amount |-> amount,
                                                    reference |-> reference])]
    IN  IF tk.host = NoHost THEN AfterDeduct(tk1, DeductFailed("Host identifier required"))
        ELSE IF InvalidAmount(amount)
        THEN AfterDeduct(tk1, DeductFailed("Invalid deduction amount"))
        ELSE [tk1 EXCEPT !.pc = "dc_find"]

\* variant: a cache hit charged at the full cost
cacheCostUndiscounted(result) == result.cost.totalCost

\* the cache-hit fee: result.cost.totalCost * 0.1
cacheCost(result) == result.cost.totalCost \div 10

\* the body of a 200 response of POST /api/analyze, or a fulfilled item
Respond(tk) ==
    LET hit  == [NoBody EXCEPT !.cached = TRUE, !.result = tk.result,
                               !.balanceRemaining = tk.balanceCheck.balance - cacheCost(tk.result)]
        miss == [NoBody EXCEPT !.cached = FALSE, !.result = tk.result,
                               !.balanceRemaining =
                                   IF tk.deduction.success THEN tk.deduction.balance
                                   ELSE tk.balanceCheck.balance - tk.result.cost.totalCost]
        body == IF tk.cached THEN hit ELSE miss
    IN  IF tk.op = "item"
        THEN [tk EXCEPT !.pc = "returned", !.body = [body EXCEPT !.balanceRemaining = 0]]
        ELSE [tk EXCEPT !.pc = "done", !.status = 200, !.body = body]

\* the error texts of the ledger that contain 'balance'
BalanceTexts == {"Insufficient balance", "Error checking balance"}

\* r.details && r.details.includes('balance')
includesBalance(details) == details # "none" /\ details \in BalanceTexts

\* calculateBatchSummary(batchResults): the counts of the summary
calculateBatchSummary(batchResults) ==
    LET all    == 1..Len(batchResults)
        failed == {i \in all : batchResults[i].error # "none"}
    IN  [totalTexts |-> Len(batchResults),
         successful |-> Cardinality(all \ failed),
         failed     |-> Cardinality(failed),
         errors     |-> [balanceErrors |-> Cardinality(
                            {i \in failed : includesBalance(batchResults[i].details)}),
                         otherErrors |-> Cardinality(
                            {i \in failed : ~includesBalance(batchResults[i].details)})]]

\* Promise.all over the items: rejected as soon as one item is rejected,
\* fulfilled when all are; the handler then answers in the same turn
BatchAfter(tasks) ==
    IF batch.state # "running" THEN batch
    ELSE IF \E i \in 1..Len(batch.items) : tasks[batch.items[i]].pc = "rejected"
    THEN [batch EXCEPT !.state = "responded", !.status = 500]
    ELSE IF \A i \in 1..Len(batch.items) : tasks[batch.items[i]].pc = "returned"
    THEN [batch EXCEPT !.state = "responded", !.status = 200,
                       !.nresults = Len(batch.items),
                       !.summary = calculateBatchSummary(
                           [i \in 1..Len(batch.items) |-> tasks[batch.items[i]].body])]
    ELSE batch

\* keys whose miss is answered 200 by this step, with their entry still live
Answered(tasks) ==
    {tasks[t].key : t \in {u \in Tasks :
        /\ tasks[u].tr.live /\ ~tasks[u].cached
        /\ \/ tasks[u].op = "analyze" /\ tasks[u].status = 200 /\ task[u].status = 0
           \/ tasks[u].op = "item" /\ batch.status = 0 /\ BatchAfter(tasks).status = 200}}

\* one task runs to its next await
Run(t, new) ==
    LET tasks == [task EXCEPT ![t] = new]
    IN  /\ task' = tasks
        /\ batch' = BatchAfter(tasks)
        /\ fresh' = fresh \cup Answered(tasks)
        /\ UNCHANGED <<cacheAdmin, probe>>

\* one task runs to its next await, outside the analytics recorder
Step(t, new) == Run(t, new) /\ UNCHANGED stats

\* tasks are started in index order (their identities carry no meaning)
CanStart(t) == task[t].pc = "idle" /\ \A u \in 1..(t - 1) : task[u].pc # "idle"

(***************************************************************************)
(* Balance Ledger: services/balanceService.js                              *)
(***************************************************************************)

\* checkBalance: await HostBalance.findOne({ host })
CheckBalanceFind(t) ==
    /\ task[t].pc = "cb_find"
    /\ \E ok \in BOOLEAN :
        /\ Outcome(ok)
        /\ Step(t, AfterCheck(task[t],
                 IF ok THEN CheckResult(hostBalances[task[t].host], task[t].estimatedCost)
                 ELSE CheckError))
    /\ UNCHANGED <<hostBalances, transactions, redis, requests>>

\* balanceService.checkBalance(host, requiredAmount) called directly
StartCheckBalance(t, host, requiredAmount) ==
    /\ CanStart(t)
    /\ Step(t, CheckCall([IdleTask EXCEPT !.op = "checkBalance", !.host = host,
                                          !.estimatedCost = requiredAmount]))
    /\ UNCHANGED <<hostBalances, transactions, redis, requests, failures>>

\* variant: the sufficiency check only looks for an empty balance
InsufficientOnlyWhenEmpty(balance, amount) == balance <= 0

\* deductCredits: if (hostBalance.balance < amount) return failure
Insufficient(balance, amount) == balance < amount

\* balanceService.deductCredits(host, amount) called directly
StartDeductCredits(t, host, amount) ==
    /\ CanStart(t)
    /\ Step(t, DeductCall([IdleTask EXCEPT !.op = "deductCredits", !.host = host],
                          amount, <<>>))
    /\ UNCHANGED <<hostBalances, transactions, redis, requests, failures>>

\* variant: the query without its filter, any stored record is found
findOneOfAnyHost(host) ==
    IF \E h \in Hosts : hostBalances[h].exists
    THEN hostBalances[CHOOSE h \in Hosts : hostBalances[h].exists]
    ELSE hostBalances[host]

\* HostBalance.findOne({ host }): the record of that host, none when it has none
findOne(host) == hostBalances[host]

\* deductCredits: await HostBalance.findOne({ host }), the checks, the local update
DeductFind(t) ==
    /\ task[t].pc = "dc_find"
    /\ \E ok \in BOOLEAN :
        /\ Outcome(ok)
        /\ LET doc == findOne(task[t].host)
               tk  == IF ok /\ doc.exists
                      THEN [task[t] EXCEPT !.tr.hasRead = TRUE, !.tr.balanceRead = doc.balance]
                      ELSE task[t]
           IN  Step(t,
                 IF ~ok THEN AfterDeduct(tk, DeductFailed("Error processing deduction"))
                 ELSE IF ~doc.exists
                 THEN AfterDeduct(tk, DeductFailed("Host not registered in the system"))
                 ELSE IF Insufficient(doc.balance, tk.amount)
                 THEN AfterDeduct(tk, DeductFailed("Insufficient balance"))
                 ELSE [tk EXCEPT !.pc = "dc_save",
                                 !.newBalance = doc.balance - tk.amount,
                                 !.doc = [doc EXCEPT !.balance = doc.balance - tk.amount,
                                                     !.totalCreditsUsed = @ + tk.amount]])
    /\ UNCHANGED <<hostBalances, transactions, redis, requests>>

\* deductCredits: await hostBalance.save() writes the modified paths
DeductSave(t) ==
    /\ task[t].pc = "dc_save"
    /\ \E ok \in BOOLEAN :
        /\ Outcome(ok)
        /\ LET tk == task[t]
           IN  IF ok
               THEN /\ hostBalances' = [hostBalances EXCEPT
                           ![tk.host].balance = tk.doc.balance,
                           ![tk.host].totalCreditsUsed = tk.doc.totalCreditsUsed]
                    /\ Step(t, [tk EXCEPT !.pc = "dc_tx", !.tr.saves = @ + 1])
               ELSE /\ UNCHANGED hostBalances
                    /\ Step(t, AfterDeduct(tk, DeductFailed("Error processing deduction")))
    /\ UNCHANGED <<transactions, redis, requests>>

\* variant: the deduction logged with the amount unsigned
DeductTransactionUnsigned(tk, t) ==
    [host |-> tk.host, amount |-> tk.amount, type |-> "deduct",
     balanceAfter |-> tk.newBalance, reference |-> tk.reference, by |-> t]

\* new BalanceTransaction({ host, amount: -amount, type: 'deduct', ... })
DeductTransaction(tk, t) ==
    [host |-> tk.host, amount |-> -tk.amount, type |-> "deduct",
     balanceAfter |-> tk.newBalance, reference |-> tk.reference, by |-> t]

\* deductCredits: await transaction.save(), then the success value
DeductTxSave(t) ==
    /\ task[t].pc = "dc_tx"
    /\ \E ok \in BOOLEAN :
        /\ Outcome(ok)
        /\ LET tk == task[t]
           IN  IF ok
               THEN /\ transactions' = Append(transactions, DeductTransaction(tk, t))
                    /\ Step(t, AfterDeduct(tk, [called |-> TRUE, success |-> TRUE,
                                                balance |-> tk.newBalance, error |-> "none"]))
               ELSE /\ UNCHANGED transactions
                    /\ Step(t, AfterDeduct(tk, DeductFailed("Error processing deduction")))
    /\ UNCHANGED <<hostBalances, redis, requests>>

\* variant: a failed call throws to its caller
FailByThrowing(tk, error) == [tk EXCEPT !.pc = "rejected"]

\* return { success: false, error }: an early return or the catch block
Fail(tk, error) == [tk EXCEPT !.pc = "done", !.success = FALSE, !.error = error]

\* balanceService.addCredits(host, amount) up to its first await
StartAddCredits(t, host, amount) ==
    /\ CanStart(t)
    /\ LET tk == [IdleTask EXCEPT !.op = "addCredits", !.host = host, !.amount = amount]
       IN  Step(t, IF host = NoHost THEN Fail(tk, "Host identifier required")
                   ELSE IF amount <= 0 THEN Fail(tk, "Invalid credit amount")
                   ELSE [tk EXCEPT !.pc = "ac_find"])
    /\ UNCHANGED <<hostBalances, transactions, redis, requests, failures>>

\* addCredits: await HostBalance.findOne({ host }), new document if none
AddFind(t) ==
    /\ task[t].pc = "ac_find"
    /\ \E ok \in BOOLEAN :
        /\ Outcome(ok)
        /\ LET tk  == task[t]
               doc == IF hostBalances[tk.host].exists THEN hostBalances[tk.host]
                      ELSE [NoDoc EXCEPT !.active = TRUE]
           IN  Step(t,
                 IF ~ok THEN Fail(tk, "Error processing credit addition")
                 ELSE [tk EXCEPT !.pc = "ac_save",
                                 !.newBalance = doc.balance + tk.amount,
                                 !.doc = [doc EXCEPT !.balance = doc.balance + tk.amount,
                                                     !.totalCreditsAdded = @ + tk.amount]])
    /\ UNCHANGED <<hostBalances, transactions, redis, requests>>

\* addCredits: await hostBalance.save(): an insert of a new document (rejected by
\* the unique index on host when one exists by now), else the modified paths
AddSave(t) ==
    /\ task[t].pc = "ac_save"
    /\ \E ok \in BOOLEAN :
        /\ Outcome(ok)
        /\ LET tk     == task[t]
               isNew  == ~tk.doc.exists
               stored == hostBalances[tk.host]
           IN  IF ok /\ ~(isNew /\ stored.exists)
               THEN /\ hostBalances' = [hostBalances EXCEPT ![tk.host] =
                           IF isNew THEN [tk.doc EXCEPT !.exists = TRUE]
                           ELSE [stored EXCEPT !.balance = tk.doc.balance,
                                               !.totalCreditsAdded = tk.doc.totalCreditsAdded]]
                    /\ Step(t, [tk EXCEPT !.pc = "ac_tx", !.tr.saves = @ + 1])
               ELSE /\ UNCHANGED hostBalances
                    /\ Step(t, Fail(tk, "Error processing credit addition"))
    /\ UNCHANGED <<transactions, redis, requests>>

\* addCredits: await transaction.save(), then the success value
AddTxSave(t) ==
    /\ task[t].pc = "ac_tx"
    /\ \E ok \in BOOLEAN :
        /\ Outcome(ok)
        /\ LET tk == task[t]
           IN  IF ok
               THEN /\ transactions' = Append(transactions,
                           [host |-> tk.host, amount |-> tk.amount, type |-> "add",
                            balanceAfter |-> tk.newBalance, reference |-> <<>>, by |-> t])
                    /\ Step(t, [tk EXCEPT !.pc = "done", !.success = TRUE])
               ELSE /\ UNCHANGED transactions
                    /\ Step(t, Fail(tk, "Error processing credit addition"))
    /\ UNCHANGED <<hostBalances, redis, requests>>

\* variant: anything but a refund can be refunded
RefundableUnlessRefund(tx) == tx.type # "refund"

\* if (transaction.type !== 'deduct') return failure
Refundable(tx) == tx.type = "deduct"

\* variant: the refund carries the sign of the original amount
refundAmountSigned(tx) == tx.amount

\* const refundAmount = Math.abs(transaction.amount)
refundAmount(tx) == IF tx.amount < 0 THEN -tx.amount ELSE tx.amount

\* balanceService.refundTransaction(transactionId) up to its first await
StartRefundTransaction(t, id) ==
    /\ CanStart(t)
    /\ Step(t, [IdleTask EXCEPT !.op = "refundTransaction", !.txId = id, !.pc = "rt_findtx"])
    /\ UNCHANGED <<hostBalances, transactions, redis, requests, failures>>

\* refundTransaction: await BalanceTransaction.findById(transactionId)
RefundFindTx(t) ==
    /\ task[t].pc = "rt_findtx"
    /\ \E ok \in BOOLEAN :
        /\ Outcome(ok)
        /\ LET tk == task[t]
           IN  Step(t,
                 IF ~ok THEN Fail(tk, "Error processing refund")
                 ELSE IF tk.txId \notin 1..Len(transactions)
                 THEN Fail(tk, "Transaction not found")
                 ELSE IF ~Refundable(transactions[tk.txId])
                 THEN Fail(tk, "Only deduction transactions can be refunded")
                 ELSE [tk EXCEPT !.pc = "rt_findhost",
                                 !.host = transactions[tk.txId].host,
                                 !.amount = refundAmount(transactions[tk.txId])])
    /\ UNCHANGED <<hostBalances, transactions, redis, requests>>

\* refundTransaction: await HostBalance.findOne({ host: transaction.host })
RefundFindHost(t) ==
    /\ task[t].pc = "rt_findhost"
    /\ \E ok \in BOOLEAN :
        /\ Outcome(ok)
        /\ LET tk  == task[t]
               doc == hostBalances[tk.host]
           IN  Step(t,
                 IF ~ok THEN Fail(tk, "Error processing refund")
                 ELSE IF ~doc.exists THEN Fail(tk, "Host not found")
                 ELSE [tk EXCEPT !.pc = "rt_save",
                                 !.newBalance = doc.balance + tk.amount,
                                 !.doc = [doc EXCEPT !.balance = doc.balance + tk.amount,
                                                     !.totalCreditsUsed = @ - tk.amount]])
    /\ UNCHANGED <<hostBalances, transactions, redis, requests>>

\* refundTransaction: await hostBalance.save()
RefundSave(t) ==
    /\ task[t].pc = "rt_save"
    /\ \E ok \in BOOLEAN :
        /\ Outcome(ok)
        /\ LET tk == task[t]
           IN  IF ok
               THEN /\ hostBalances' = [hostBalances EXCEPT
                           ![tk.host].balance = tk.doc.balance,
                           ![tk.host].totalCreditsUsed = tk.doc.totalCreditsUsed]
                    /\ Step(t, [tk EXCEPT !.pc = "rt_tx", !.tr.saves = @ + 1])
               ELSE /\ UNCHANGED hostBalances
                    /\ Step(t, Fail(tk, "Error processing refund"))
    /\ UNCHANGED <<transactions, redis, requests>>

\* refundTransaction: await refundTransaction.save(), then the success value
RefundTxSave(t) ==
    /\ task[t].pc = "rt_tx"
    /\ \E ok \in BOOLEAN :
        /\ Outcome(ok)
        /\ LET tk == task[t]
           IN  IF ok
               THEN /\ transactions' = Append(transactions,
                           [host |-> tk.host, amount |-> tk.amount, type |-> "refund",
                            balanceAfter |-> tk.newBalance,
                            reference |-> <<ToString(tk.txId)>>, by |-> t])
                    /\ Step(t, [tk EXCEPT !.pc = "done", !.success = TRUE])
               ELSE /\ UNCHANGED transactions
                    /\ Step(t, Fail(tk, "Error processing refund"))
    /\ UNCHANGED <<hostBalances, redis, requests>>

\* balanceService.updateHostStatus(host, active) up to its first await
StartUpdateHostStatus(t, host, active) ==
    /\ CanStart(t)
    /\ Step(t, [IdleTask EXCEPT !.op = "updateHostStatus", !.host = host,
                                !.active = active, !.pc = "us_find"])
    /\ UNCHANGED <<hostBalances, transactions, redis, requests, failures>>

\* updateHostStatus: await HostBalance.findOne({ host })
StatusFind(t) ==
    /\ task[t].pc = "us_find"
    /\ \E ok \in BOOLEAN :
        /\ Outcome(ok)
        /\ LET tk  == task[t]
               doc == hostBalances[tk.host]
           IN  Step(t,
                 IF ~ok THEN Fail(tk, "Error updating host status")
                 ELSE IF ~doc.exists THEN Fail(tk, "Host not registered in the system")
                 ELSE [tk EXCEPT !.pc = "us_save", !.doc = doc])
    /\ UNCHANGED <<hostBalances, transactions, redis, requests>>

\* updateHostStatus: await hostBalance.save(); active is written when the
\* assignment changed the value that was read
StatusSave(t) ==
    /\ task[t].pc = "us_save"
    /\ \E ok \in BOOLEAN :
        /\ Outcome(ok)
        /\ LET tk == task[t]
           IN  IF ok
               THEN /\ hostBalances' = [hostBalances EXCEPT ![tk.host].active =
                           IF tk.doc.active # tk.active THEN tk.active ELSE @]
                    /\ Step(t, [tk EXCEPT !.pc = "done", !.success = TRUE])
               ELSE /\ UNCHANGED hostBalances
                    /\ Step(t, Fail(tk, "Error updating host status"))
    /\ UNCHANGED <<transactions, redis, requests>>

\* balanceService.getHostBalance(host) up to its await
StartGetHostBalance(t, host) ==
    /\ CanStart(t)
    /\ Step(t, [IdleTask EXCEPT !.op = "getHostBalance", !.host = host, !.pc = "gb_find"])
    /\ UNCHANGED <<hostBalances, transactions, redis, requests, failures>>

\* getHostBalance: await HostBalance.findOne({ host }), then the answer
GetHostBalanceFind(t) ==
    /\ task[t].pc = "gb_find"
    /\ \E ok \in BOOLEAN :
        /\ Outcome(ok)
        /\ LET tk  == task[t]
               doc == hostBalances[tk.host]
           IN  Step(t,
                 IF ~ok THEN Fail(tk, "Error retrieving balance information")
                 ELSE IF ~doc.exists THEN Fail(tk, "Host not registered in the system")
                 ELSE [tk EXCEPT !.pc = "done", !.success = TRUE, !.doc = doc])
    /\ UNCHANGED <<hostBalances, transactions, redis, requests>>

\* balanceService.getTransactionHistory(host) up to its first await
StartGetTransactionHistory(t, host) ==
    /\ CanStart(t)
    /\ Step(t, [IdleTask EXCEPT !.op = "getTransactionHistory", !.host = host,
                                !.pc = "th_count"])
    /\ UNCHANGED <<hostBalances, transactions, redis, requests, failures>>

\* getTransactionHistory: await countDocuments, await find, await exists
TransactionHistoryStep(t) ==
    /\ task[t].pc \in {"th_count", "th_find", "th_exists"}
    /\ \E ok \in BOOLEAN :
        /\ Outcome(ok)
        /\ LET tk == task[t]
           IN  Step(t,
                 IF ~ok THEN Fail(tk, "Error retrieving transaction history")
                 ELSE IF tk.pc = "th_count" THEN [tk EXCEPT !.pc = "th_find"]
                 ELSE IF tk.pc = "th_find" THEN [tk EXCEPT !.pc = "th_exists"]
                 ELSE [tk EXCEPT !.pc = "done", !.success = TRUE,
                                 !.doc = hostBalances[tk.host]])
    /\ UNCHANGED <<hostBalances, transactions, redis, requests>>

\* balanceService.getAllHosts() up to its await
StartGetAllHosts(t) ==
    /\ CanStart(t)
    /\ Step(t, [IdleTask EXCEPT !.op = "getAllHosts", !.pc = "ga_find"])
    /\ UNCHANGED <<hostBalances, transactions, redis, requests, failures>>

\* getAllHosts: await HostBalance.find({}).sort(...), then the answer
GetAllHostsFind(t) ==
    /\ task[t].pc = "ga_find"
    /\ \E ok \in BOOLEAN :
        /\ Outcome(ok)
        /\ Step(t, IF ~ok THEN Fail(task[t], "Error retrieving host information")
                   ELSE [task[t] EXCEPT !.pc = "done", !.success = TRUE])
    /\ UNCHANGED <<hostBalances, transactions, redis, requests>>

(***************************************************************************)
(* Request orchestrator: server/app-sentiment.js                           *)
(***************************************************************************)

\* what the classifier returns as message content, parsed
Results == {[hasIntents |-> TRUE, intents |-> {"information"}, sentiment |-> "positive",
             score |-> 8],
            [hasIntents |-> FALSE, intents |-> {}, sentiment |-> "positive", score |-> 8]}

\* variant: the host is not validated
MissingTextOnly(text, host) == text = <<>>

\* if (!text) ...; if (!host) ...
MissingField(text, host) == text = <<>> \/ host = NoHost

Bad400(tk, error) == [tk EXCEPT !.pc = "done", !.status = 400, !.body.error = error]

\* POST /api/analyze: validation, the estimate, checkBalance up to its await
StartAnalyze(t, text, host, model) ==
    /\ CanStart(t)
    /\ LET tk == [IdleTask EXCEPT !.op = "analyze", !.text = text, !.host = host,
                                  !.model = model]
       IN  Step(t, IF MissingField(text, host)
                   THEN Bad400(tk, IF text = <<>> THEN "Text is required"
                                   ELSE "host is required. e.g. host.customer.com")
                   ELSE CheckCall([tk EXCEPT !.estimatedCost = estimateCost(text, model)]))
    /\ UNCHANGED <<hostBalances, transactions, redis, requests, failures>>

\* await redis.get(cacheKey); on a hit the fee and deductCredits up to its await
CacheGet(t) ==
    /\ task[t].pc = "cache_get"
    /\ \E ok \in BOOLEAN :
        /\ Outcome(ok)
        /\ LET tk  == [task[t] EXCEPT !.tr.cacheGets = @ + 1,
                                      !.tr.fresh = ok /\ task[t].key \in fresh]
               hit == [tk EXCEPT !.cached = TRUE, !.result = redis[tk.key]]
           IN  Step(t,
                 IF ~ok THEN Throw(tk, "redis error")
                 ELSE IF tk.key \in DOMAIN redis
                 THEN IF cacheCost(hit.result) > 0
                      THEN DeductCall(hit, cacheCost(hit.result), tk.key)
                      ELSE [hit EXCEPT !.pc = "an_rec"]
                 ELSE [tk EXCEPT !.pc = "openai"])
    /\ UNCHANGED <<hostBalances, transactions, redis, requests>>

\* variant: a request whose classifier content did not parse is still recorded
ParseErrorRecorded(tk) == [tk EXCEPT !.pc = "an_rec"]

\* catch (parseError): return res.status(500).json({ error: 'Failed to parse ...' })
ParseError(tk) ==
    [tk EXCEPT !.pc = "done", !.status = 500,
               !.body.error = "Failed to parse OpenAI response"]

\* await callOpenAI(request), JSON.parse of the content, calculateCost,
\* deductCredits up to its await
CallOpenAI(t) ==
    /\ task[t].pc = "openai"
    /\ LET tk == [task[t] EXCEPT !.tr.classifier = @ + 1]
       IN  \/ /\ Outcome(FALSE)                       \* network / HTTP failure
              /\ Step(t, Throw(tk, "upstream error"))
           \/ /\ UNCHANGED failures                   \* content is not JSON
              /\ Step(t, IF tk.op = "item" THEN Throw(tk, "Unexpected token")
                         ELSE ParseError(tk))
           \/ /\ UNCHANGED failures
              /\ \E r \in Results, u \in Usages :
                    LET costInfo == calculateCost(u, tk.model)
                        res == [valid |-> TRUE, hasIntents |-> r.hasIntents,
                                intents |-> r.intents, sentiment |-> r.sentiment,
                                score |-> r.score, usage |-> u, cost |-> costInfo,
                                host |-> IF tk.op = "item" THEN NoHost ELSE tk.host,
                                model |-> tk.model]
                    IN  Step(t, DeductCall([tk EXCEPT !.result = res],
                                           costInfo.totalCost, tk.key))
    /\ UNCHANGED <<hostBalances, transactions, redis, requests>>

\* variant: SET ... NX, a stored value is kept
redisSetIfAbsent(key, value) == redis @@ (key :> value)

\* redis.set(key, value, 'EX', ttl): the value stored under the key from now on
redisSet(key, value) == (key :> value) @@ redis

\* await redis.set(cacheKey, JSON.stringify(finalResult), 'EX', ttl)
CacheSet(t) ==
    /\ task[t].pc = "cache_set"
    /\ \E ok \in BOOLEAN :
        /\ Outcome(ok)
        /\ LET tk == task[t]
           IN  IF ok
               THEN /\ redis' = redisSet(tk.key, tk.result)
                    /\ Step(t, [tk EXCEPT !.pc = "an_rec", !.tr.cacheSets = @ + 1,
                                          !.tr.live = TRUE])
               ELSE /\ UNCHANGED redis
                    /\ Step(t, Throw(tk, "redis error"))
    /\ UNCHANGED <<hostBalances, transactions, requests>>

\* variant: the misses are not counted
RollupIncrementNoMisses(r, cached) ==
    [r EXCEPT !.requests = @ + 1,
              !.cacheHits = IF cached THEN @ + 1 ELSE @]

\* updateOne(filter, { $inc: { requests: 1, cacheHits | cacheMisses: 1, ... } },
\* { upsert: true }): the increments applied to the rollup document
RollupIncrement(r, cached) ==
    [r EXCEPT !.requests = @ + 1,
              !.cacheHits = IF cached THEN @ + 1 ELSE @,
              !.cacheMisses = IF cached THEN @ ELSE @ + 1]

\* variant: an error of the recorder reaches the request
AnalyticsErrorThrown(tk) == Throw([tk EXCEPT !.tr.recorder = "failed"], "analytics error")

\* catch (error) of recordRequest: logged, the request goes on to its answer
AnalyticsError(tk) == Respond([tk EXCEPT !.tr.recorder = "failed"])

\* await updateAnalytics(...) -> recordRequest.  It returns at once while
\* mongodbAvailable is false (no MONGODB_URI, or no connection made so far);
\* else the Request document is saved without being awaited (its failure is
\* caught on its own), then await DailyStats.updateOne(...)
RecordDaily(t) ==
    /\ task[t].pc = "an_rec"
    /\ \E r \in {"ok", "save failed", "update failed", "skipped"} :
        /\ Outcome(r \in {"ok", "skipped"})
        /\ LET tk == [task[t] EXCEPT !.tr.analytics = @ + 1]
           IN  /\ requests' = IF r \in {"ok", "update failed"}
                              THEN requests \cup {[host |-> tk.host, key |-> tk.key,
                                                   cached |-> tk.cached, by |-> t]}
                              ELSE requests
               /\ CASE r = "skipped" ->
                         /\ UNCHANGED stats
                         /\ Run(t, Respond([tk EXCEPT !.tr.recorder = "skipped"]))
                    [] r = "update failed" ->
                         /\ UNCHANGED stats
                         /\ Run(t, AnalyticsError(tk))
                    [] OTHER ->
                         /\ stats' = [stats EXCEPT ![tk.host].daily =
                                          RollupIncrement(@, tk.cached)]
                         /\ Run(t, [tk EXCEPT !.pc = "an_hourly",
                                              !.tr.recorder = "running"])
    /\ UNCHANGED <<hostBalances, transactions, redis>>

\* recordRequest: await HourlyStats.updateOne(...)
RecordHourly(t) ==
    /\ task[t].pc = "an_hourly"
    /\ \E ok \in BOOLEAN :
        /\ Outcome(ok)
        /\ LET tk == task[t]
           IN  IF ok
               THEN /\ stats' = [stats EXCEPT ![tk.host].hourly =
                                     RollupIncrement(@, tk.cached)]
                    /\ Run(t, [tk EXCEPT !.pc = "an_host"])
               ELSE /\ UNCHANGED stats
                    /\ Run(t, AnalyticsError(tk))
    /\ UNCHANGED <<hostBalances, transactions, redis, requests>>

\* recordRequest: await HostStats.updateOne(...), then the answer of the request
RecordHost(t) ==
    /\ task[t].pc = "an_host"
    /\ \E ok \in BOOLEAN :
        /\ Outcome(ok)
        /\ LET tk == task[t]
           IN  IF ok
               THEN /\ stats' = [stats EXCEPT ![tk.host].host =
                                     RollupIncrement(@, tk.cached)]
                    /\ Run(t, Respond([tk EXCEPT !.tr.recorder = "ok"]))
               ELSE /\ UNCHANGED stats
                    /\ Run(t, AnalyticsError(tk))
    /\ UNCHANGED <<hostBalances, transactions, redis, requests>>

\* the texts of a batch request: not an array, or an array of texts
BatchInputs == {[isArray |-> FALSE, texts |-> <<>>],
                [isArray |-> TRUE, texts |-> <<>>],
                [isArray |-> TRUE, texts |-> << <<>> >>],
                [isArray |-> TRUE, texts |-> << <<"a">> >>],
                [isArray |-> TRUE, texts |-> << <<"a">>, <<" ", "a">> >>],
                [isArray |-> TRUE, texts |-> [i \in 1..(BATCH_LIMIT + 1) |-> <<"a">>]]}

IdleTasks == {t \in Tasks : task[t].pc = "idle"}

\* the n-th idle task, in index order
RECURSIVE NthIdle(_, _)
NthIdle(n, from) ==
    IF task[from].pc = "idle"
    THEN IF n = 1 THEN from ELSE NthIdle(n - 1, from + 1)
    ELSE NthIdle(n, from + 1)

\* !Array.isArray(texts) || texts.length === 0, texts.length > 100
InvalidBatch(in) == ~in.isArray \/ Len(in.texts) = 0 \/ Len(in.texts) > BATCH_LIMIT

\* POST /api/batch: validation, then processText of every text up to its await
StartBatch(in, host, model) ==
    /\ batch.state = "none"
    /\ IF InvalidBatch(in)
       THEN /\ batch' = [NoBatch EXCEPT !.state = "responded", !.status = 400,
                                        !.isArray = in.isArray, !.ntexts = Len(in.texts)]
            /\ UNCHANGED task
       ELSE /\ Len(in.texts) <= Cardinality(IdleTasks)
            /\ LET items == [i \in 1..Len(in.texts) |-> NthIdle(i, 1)]
               IN  /\ task' = [t \in Tasks |->
                         IF \E i \in 1..Len(items) : items[i] = t
                         THEN LET i == CHOOSE i \in 1..Len(items) : items[i] = t
                              IN  [IdleTask EXCEPT !.op = "item", !.text = in.texts[i],
                                       !.host = host, !.model = model,
                                       !.estimatedCost = estimateCost(in.texts[i], model),
                                       !.pc = "cb_find"]
                         ELSE task[t]]
                   /\ batch' = [NoBatch EXCEPT !.state = "running", !.items = items,
                                               !.isArray = TRUE, !.ntexts = Len(in.texts)]
    /\ UNCHANGED <<hostBalances, transactions, redis, requests, failures, fresh,
                   stats, cacheAdmin, probe>>

\* a cache entry's TTL runs out
Expire(k) ==
    /\ k \in DOMAIN redis
    /\ redis' = [x \in DOMAIN redis \ {k} |-> redis[x]]
    /\ fresh' = fresh \ {k}
    /\ task' = [t \in Tasks |-> IF task[t].key = k THEN [task[t] EXCEPT !.tr.live = FALSE]
                                ELSE task[t]]
    /\ UNCHANGED <<hostBalances, transactions, requests, batch, failures,
                   stats, cacheAdmin, probe>>

\* DELETE /api/cache?key=k
DeleteCacheKey(k) ==
    /\ k \in DOMAIN redis
    /\ redis' = [x \in DOMAIN redis \ {k} |-> redis[x]]
    /\ fresh' = fresh \ {k}
    /\ task' = [t \in Tasks |-> IF task[t].key = k THEN [task[t] EXCEPT !.tr.live = FALSE]
                                ELSE task[t]]
    /\ UNCHANGED <<hostBalances, transactions, requests, batch, failures,
                   stats, cacheAdmin, probe>>

CacheKeys == {generateCacheKey(cleanString(x), m) : x \in Texts, m \in Models}

\* the steps of the ledger calls in flight
LedgerStep ==
    \/ \E t \in Tasks : CheckBalanceFind(t)
    \/ \E t \in Tasks : DeductFind(t)
    \/ \E t \in Tasks : DeductSave(t)
    \/ \E t \in Tasks : DeductTxSave(t)
    \/ \E t \in Tasks : AddFind(t)
    \/ \E t \in Tasks : AddSave(t)
    \/ \E t \in Tasks : AddTxSave(t)
    \/ \E t \in Tasks : StatusFind(t)
    \/ \E t \in Tasks : StatusSave(t)

RefundStep ==
    \/ \E t \in Tasks : RefundFindTx(t)
    \/ \E t \in Tasks : RefundFindHost(t)
    \/ \E t \in Tasks : RefundSave(t)
    \/ \E t \in Tasks : RefundTxSave(t)

\* the steps of the read-only ledger calls in flight
QueryStep ==
    \/ \E t \in Tasks : GetHostBalanceFind(t)
    \/ \E t \in Tasks : TransactionHistoryStep(t)
    \/ \E t \in Tasks : GetAllHostsFind(t)

\* the request path: analyze and batch requests, with the administrative
\* calls that fund and (de)activate hosts, and the cache's expiry and deletion
Next ==
    \/ \E t \in Tasks, x \in Texts, h \in Hosts \cup {NoHost}, m \in Models :
          StartAnalyze(t, x, h, m)
    \/ \E in \in BatchInputs, h \in Hosts, m \in Models : StartBatch(in, h, m)
    \/ \E t \in Tasks, h \in Hosts, a \in AddAmounts : StartAddCredits(t, h, a)
    \/ \E t \in Tasks, h \in Hosts, a \in BOOLEAN : StartUpdateHostStatus(t, h, a)
    \/ LedgerStep
    \/ \E t \in Tasks : CacheGet(t)
    \/ \E t \in Tasks : CallOpenAI(t)
    \/ \E t \in Tasks : CacheSet(t)
    \/ \E t \in Tasks : RecordDaily(t)
    \/ \E t \in Tasks : RecordHourly(t)
    \/ \E t \in Tasks : RecordHost(t)
    \/ \E k \in CacheKeys : Expire(k)
    \/ \E k \in CacheKeys : DeleteCacheKey(k)

Spec == Init /\ [][Next]_vars

\* the request path with two tenants: at start both hosts hold the 60 units that
\* an earlier addCredits(host, 60) gave each
InitTenants ==
    /\ hostBalances = [h \in Hosts |-> FundedHost]
    /\ transactions = <<FundingTransaction, [FundingTransaction EXCEPT !.host = "b.com"]>>
    /\ redis = <<>>
    /\ requests = {}
    /\ task = [t \in Tasks |-> IdleTask]
    /\ batch = NoBatch
    /\ failures = 0
    /\ fresh = {}
    /\ stats = [h \in Hosts |-> NoStats]
    /\ cacheAdmin = NoCacheAdmin
    /\ probe = NoProbe

SpecTenants == InitTenants /\ [][Next]_vars

\* a ledger call is made
LedgerCall ==
    \/ \E t \in Tasks, h \in Hosts, a \in Amounts : StartCheckBalance(t, h, a)
    \/ \E t \in Tasks, h \in Hosts, a \in Amounts : StartDeductCredits(t, h, a)
    \/ \E t \in Tasks, h \in Hosts, a \in AddAmounts : StartAddCredits(t, h, a)
    \/ \E t \in Tasks, id \in 1..2 : StartRefundTransaction(t, id)
    \/ \E t \in Tasks, h \in Hosts, a \in BOOLEAN : StartUpdateHostStatus(t, h, a)
    \/ \E t \in Tasks, h \in Hosts : StartGetHostBalance(t, h)
    \/ \E t \in Tasks, h \in Hosts : StartGetTransactionHistory(t, h)
    \/ \E t \in Tasks : StartGetAllHosts(t)

\* the Balance Ledger alone: its operations called concurrently
NextLedger ==
    \/ LedgerCall
    \/ LedgerStep
    \/ RefundStep
    \/ QueryStep

\* at start the ledger may also hold the deduction of an earlier
\* deductCredits(host, 40) on the funded host
SpentHost == [exists |-> TRUE, balance |-> 20, totalCreditsAdded |-> 60,
              totalCreditsUsed |-> 40, active |-> TRUE]
SpendingTransaction == [host |-> "a.com", amount |-> -40, type |-> "deduct",
                        balanceAfter |-> 20, reference |-> <<>>, by |-> 0]

InitLedger ==
    \/ Init
    \/ /\ hostBalances = [h \in Hosts |-> IF h = "a.com" THEN SpentHost ELSE NoDoc]
       /\ transactions = <<FundingTransaction, SpendingTransaction>>
       /\ redis = <<>>
       /\ requests = {}
       /\ task = [t \in Tasks |-> IdleTask]
       /\ batch = NoBatch
       /\ failures = 0
       /\ fresh = {}
       /\ stats = [h \in Hosts |-> NoStats]
       /\ cacheAdmin = NoCacheAdmin
       /\ probe = NoProbe

SpecLedger == InitLedger /\ [][NextLedger]_vars

\* the Balance Ledger called by one caller: a call is made when the calls
\* before it have returned
NextSerial ==
    \/ (\A t \in Tasks : task[t].pc \in {"idle", "done"}) /\ LedgerCall
    \/ LedgerStep
    \/ RefundStep
    \/ QueryStep

SpecSerial == InitLedger /\ [][NextSerial]_vars

(***************************************************************************)
(* The helper functions on their own: one call of determineTTL, of the     *)
(* cache key of two requests, or of calculateCost, on arguments drawn at   *)
(* the start                                                               *)
(***************************************************************************)
MaxTextLen == 2
MaxPromptTokens == 8
MaxCompletionTokens == 4

PureIntents == {"news", "current_events", "factual", "reference", "greeting"}
PureSentiments == {"negative", "neutral", "positive"}
PureScores == {-9, -6, -5, -4, 0, 8}
CacheTTLs == {0, 7200}
PureChars == {"a", " ", "|", "\\u2018", "'"}
PureTexts == UNION {[1..n -> PureChars] : n \in 0..MaxTextLen}
KeyModels == {DEFAULT_MODEL, <<"|">> \o DEFAULT_MODEL}
CostModels == {DEFAULT_MODEL, GPT4, <<"gpt-5">>, <<"constructor">>}

TTLProbes ==
    {[fn |-> "determineTTL", done |-> FALSE, out |-> <<>>, CACHE_TTL |-> e,
      args |-> [intents |-> i, sentiment |-> s, score |-> c]] :
        e \in CacheTTLs, i \in SUBSET PureIntents, s \in PureSentiments, c \in PureScores}

KeyProbes ==
    {[fn |-> "generateCacheKey", done |-> FALSE, out |-> <<>>, CACHE_TTL |-> 0,
      args |-> [text1 |-> x, model1 |-> m, text2 |-> y, model2 |-> n]] :
        x \in PureTexts \ {<<>>}, y \in PureTexts \ {<<>>}, m \in KeyModels, n \in KeyModels}

CostProbes ==
    {[fn |-> "calculateCost", done |-> FALSE, out |-> <<>>, CACHE_TTL |-> 0,
      args |-> [usage |-> [prompt_tokens |-> pt, completion_tokens |-> ct],
                model |-> m, up |-> u]] :
        pt \in 0..MaxPromptTokens, ct \in 0..MaxCompletionTokens, m \in CostModels,
        u \in [CostFields -> BOOLEAN]}

InitPure ==
    /\ hostBalances = [h \in Hosts |-> NoDoc]
    /\ transactions = <<>>
    /\ redis = <<>>
    /\ requests = {}
    /\ task = [t \in Tasks |-> IdleTask]
    /\ batch = NoBatch
    /\ failures = 0
    /\ fresh = {}
    /\ stats = [h \in Hosts |-> NoStats]
    /\ cacheAdmin = NoCacheAdmin
    /\ probe \in TTLProbes \cup KeyProbes \cup CostProbes

\* the call returns
Apply(out) ==
    /\ probe' = [probe EXCEPT !.out = out, !.done = TRUE]
    /\ UNCHANGED <<hostBalances, transactions, redis, requests, task, batch, failures,
                   fresh, stats, cacheAdmin>>

\* const ttl = determineTTL(finalResult)
ApplyDetermineTTL ==
    /\ probe.fn = "determineTTL"
    /\ ~probe.done
    /\ Apply(determineTTL(probe.args))

\* generateCacheKey(cleanString(text), model) of two requests
ApplyGenerateCacheKey ==
    /\ probe.fn = "generateCacheKey"
    /\ ~probe.done
    /\ Apply(<<generateCacheKey(cleanString(probe.args.text1), probe.args.model1),
               generateCacheKey(cleanString(probe.args.text2), probe.args.model2)>>)

\* const costInfo = calculateCost(usage, model)
ApplyCalculateCost ==
    /\ probe.fn = "calculateCost"
    /\ ~probe.done
    /\ Apply(calculateCostRounded(probe.args.usage, probe.args.model, probe.args.up))

NextPure ==
    \/ ApplyDetermineTTL
    \/ ApplyGenerateCacheKey
    \/ ApplyCalculateCost

SpecPure == InitPure /\ [][NextPure]_vars

(***************************************************************************)
(* Cache management: DELETE /api/cache next to the session store, on a     *)
(* redis that holds session and analytics keys beside the cache entries.   *)
(* A key is a sequence of tokens, "*" in a pattern stands for any run.     *)
(***************************************************************************)
SessionKeys == {<<"session", ":", "s1">>, <<"session", ":", "s2">>}
AnalyticsKeys == {<<"analytics", ":", "daily">>}
EntryKeys == {<<"c1">>, <<"c2">>}
StoredKeys == SessionKeys \cup AnalyticsKeys \cup EntryKeys
Patterns == {<<"*">>, <<"session", "*">>, <<"analytics", ":", "*">>, <<"c1">>, <<"x", "*">>}

\* key.startsWith(prefix)
startsWith(key, prefix) == key # <<>> /\ Head(key) = prefix

\* the keys the flush keeps back: key.startsWith('analytics') || key.startsWith('session')
SystemKey(key) == startsWith(key, "analytics") \/ startsWith(key, "session")

\* glob matching of redis.keys(pattern)
RECURSIVE GlobMatch(_, _)
GlobMatch(pattern, key) ==
    IF pattern = <<>> THEN key = <<>>
    ELSE IF Head(pattern) = "*"
         THEN \/ GlobMatch(Tail(pattern), key)
              \/ key # <<>> /\ GlobMatch(pattern, Tail(key))
         ELSE /\ key # <<>>
              /\ Head(key) = Head(pattern)
              /\ GlobMatch(Tail(pattern), Tail(key))

\* redis.del(keys)
Del(keys) ==
    /\ redis' = [x \in DOMAIN redis \ keys |-> redis[x]]
    /\ fresh' = fresh \ keys
    /\ task' = [t \in Tasks |-> IF task[t].key \in keys
                                THEN [task[t] EXCEPT !.tr.live = FALSE]
                                ELSE task[t]]

InitCache ==
    /\ hostBalances = [h \in Hosts |-> NoDoc]
    /\ transactions = <<>>
    /\ redis \in UNION {[S -> {NoResult}] : S \in SUBSET StoredKeys}
    /\ requests = {}
    /\ task = [t \in Tasks |-> IdleTask]
    /\ batch = NoBatch
    /\ failures = 0
    /\ fresh = {}
    /\ stats = [h \in Hosts |-> NoStats]
    /\ cacheAdmin = NoCacheAdmin
    /\ probe = NoProbe

\* res.json(...) / res.status(500).json(...) of DELETE /api/cache
CacheAnswer(status, success) ==
    cacheAdmin' = [cacheAdmin EXCEPT !.state = "done", !.status = status,
                                      !.success = success]

\* DELETE /api/cache?key=..., ?pattern=..., or neither, up to its first await
StartDeleteCache ==
    /\ cacheAdmin.state = "none"
    /\ \E mode \in {"key", "pattern", "flush"}, k \in StoredKeys, p \in Patterns :
        cacheAdmin' = [cacheAdmin EXCEPT
            !.state = IF mode = "key" THEN "del" ELSE "keys",
            !.mode = mode,
            !.key = IF mode = "key" THEN k ELSE <<>>,
            !.keys = IF mode = "key" THEN {k} ELSE {},
            !.pattern = IF mode = "pattern" THEN p ELSE <<>>,
            !.before = DOMAIN redis]
    /\ UNCHANGED <<hostBalances, transactions, redis, requests, task, batch, failures,
                   fresh, stats, probe>>

\* await redis.keys(pattern), or await redis.keys('*') and the filter of the flush
DeleteCacheKeys ==
    /\ cacheAdmin.state = "keys"
    /\ \E ok \in BOOLEAN :
        /\ Outcome(ok)
        /\ LET found == {k \in DOMAIN redis :
                            IF cacheAdmin.mode = "pattern"
                            THEN GlobMatch(cacheAdmin.pattern, k)
                            ELSE ~SystemKey(k)}
           IN  IF ~ok THEN CacheAnswer(500, FALSE)
               ELSE IF found = {} THEN CacheAnswer(200, cacheAdmin.mode = "flush")
               ELSE cacheAdmin' = [cacheAdmin EXCEPT !.state = "del", !.keys = found]
    /\ UNCHANGED <<hostBalances, transactions, redis, requests, task, batch,
                   fresh, stats, probe>>

\* await redis.del(...), then the answer
DeleteCacheDel ==
    /\ cacheAdmin.state = "del"
    /\ \E ok \in BOOLEAN :
        /\ Outcome(ok)
        /\ IF ok
           THEN /\ Del(cacheAdmin.keys)
                /\ CacheAnswer(200, cacheAdmin.mode # "key"
                                    \/ cacheAdmin.keys \cap DOMAIN redis # {})
           ELSE /\ UNCHANGED <<redis, fresh, task>>
                /\ CacheAnswer(500, FALSE)
    /\ UNCHANGED <<hostBalances, transactions, requests, batch, stats, probe>>

\* the session store saves a session under the prefix 'session:'
SessionSet(k) ==
    /\ k \notin DOMAIN redis
    /\ redis' = (k :> NoResult) @@ redis
    /\ UNCHANGED <<hostBalances, transactions, requests, task, batch, failures, fresh,
                   stats, cacheAdmin, probe>>

NextCache ==
    \/ StartDeleteCache
    \/ DeleteCacheKeys
    \/ DeleteCacheDel
    \/ \E k \in SessionKeys : SessionSet(k)

SpecCache == InitCache /\ [][NextCache]_vars

(***************************************************************************)
(* Properties                                                              *)
(***************************************************************************)
RECURSIVE SumAmounts(_, _)
SumAmounts(txs, h) ==
    IF txs = <<>> THEN 0
    ELSE (IF Head(txs).host = h THEN Head(txs).amount ELSE 0) + SumAmounts(Tail(txs), h)

RECURSIVE SumAdded(_, _)
SumAdded(txs, h) ==
    IF txs = <<>> THEN 0
    ELSE (IF Head(txs).host = h /\ Head(txs).type = "add" THEN Head(txs).amount ELSE 0)
         + SumAdded(Tail(txs), h)

\* the transactions a task's calls recorded
TxBy(t) == {i \in 1..Len(transactions) : transactions[i].by = t}
RequestsBy(t) == {e \in requests : e.by = t}
Finished(t) == task[t].pc \in {"done", "returned", "rejected"}
AllReturned == \A t \in Tasks : task[t].pc = "idle" \/ Finished(t)
NoRefunds == \A i \in 1..Len(transactions) : transactions[i].type # "refund"

\* C1: two deductCredits calls on one host that the balance can cover only
\* one of never both return success:true.  With no refund, no addCredits call
\* in flight and no storage failure, the balance available to deductions is
\* the credits added, so two successful deductions must fit in it together.
C1_ConcurrentDeductionsNotBothSucceed ==
    (NoRefunds /\ failures = 0 /\ \A v \in Tasks : task[v].op # "addCredits") =>
        \A t, u \in Tasks :
            (/\ t # u
             /\ task[t].deduction.success /\ task[u].deduction.success
             /\ task[t].host = task[u].host)
            => task[t].amount + task[u].amount <= SumAdded(transactions, task[t].host)

\* C2: no lost updates: with no storage failure, once every call has
\* returned each host's stored balance is the sum of the signed amounts of
\* the transactions recorded for it.
C2_NoLostUpdates ==
    (AllReturned /\ failures = 0) =>
        \A h \in Hosts : hostBalances[h].balance = SumAmounts(transactions, h)

\* C3: balance floor: every stored balance is >= 0 in every reachable state,
\* and a deductCredits call whose amount exceeds the balance it reads from the
\* store returns success:false, having written nothing.
C3_BalanceFloor ==
    /\ \A h \in Hosts : hostBalances[h].balance >= 0
    /\ \A t \in Tasks :
          (task[t].tr.hasRead /\ task[t].amount > task[t].tr.balanceRead)
          => /\ task[t].deduction.called /\ ~task[t].deduction.success
             /\ task[t].tr.saves = 0 /\ TxBy(t) = {}

C3_Witness ==
    \E t \in Tasks :
        /\ task[t].tr.hasRead /\ task[t].amount > task[t].tr.balanceRead
        /\ task[t].deduction.error = "Insufficient balance"

\* C4: a POST /api/analyze request answered 400, 402 or 500 created no
\* BalanceTransaction and did not change the host's balance.
C4_NoChargeWithoutResult ==
    \A t \in Tasks :
        (task[t].op = "analyze" /\ task[t].pc = "done" /\ task[t].status \in {400, 402, 500})
        => TxBy(t) = {} /\ task[t].tr.saves = 0

\* C5: a POST /api/batch request answered 400 or 500 created no
\* BalanceTransaction and changed no balance for any of its items.
C5_NoChargeWithoutBatchResult ==
    (batch.state = "responded" /\ batch.status \in {400, 500}) =>
        \A t \in Tasks : task[t].op = "item" => TxBy(t) = {} /\ task[t].tr.saves = 0

\* C6: a batch of 1..100 texts is answered 200 with one result entry per
\* text, whatever happens to its items: an item whose balance check is not
\* sufficient or whose classifier response is not valid JSON is an entry of
\* the results (stated here for the runs without store or network failure).
C6_BatchAlwaysAnswers200 ==
    (batch.state = "responded" /\ batch.isArray /\ batch.ntexts \in 1..BATCH_LIMIT
        /\ failures = 0)
    => batch.status = 200 /\ batch.nresults = batch.ntexts

\* C7: an analyze request whose checkBalance result is not sufficient is
\* answered 402 with balance, estimatedCost, hostExists and active, and makes
\* no deduction, cache read, cache write, classifier call or analytics record.
C7_InsufficientIs402 ==
    \A t \in Tasks :
        (task[t].op = "analyze" /\ Len(task[t].tr.checks) = 1
            /\ ~task[t].balanceCheck.sufficient)
        => /\ task[t].pc = "done" /\ task[t].status = 402
           /\ task[t].body.error = "Payment required"
           /\ task[t].body.balance = task[t].balanceCheck.balance
           /\ task[t].body.estimatedCost = estimateCost(task[t].text, task[t].model)
           /\ task[t].body.hostExists = task[t].balanceCheck.hostExists
           /\ task[t].body.active = task[t].balanceCheck.active
           /\ task[t].tr.deducts = <<>> /\ task[t].tr.saves = 0 /\ TxBy(t) = {}
           /\ task[t].tr.cacheGets = 0 /\ task[t].tr.cacheSets = 0
           /\ task[t].tr.classifier = 0
           /\ task[t].tr.analytics = 0 /\ RequestsBy(t) = {}

C7_Witness ==
    \E t \in Tasks : /\ task[t].op = "analyze" /\ task[t].status = 402
                     /\ task[t].body.details = "Host account is inactive"
                     /\ task[t].body.hostExists /\ ~task[t].body.active
                     /\ task[t].body.balance = 60 /\ task[t].body.estimatedCost = 20

\* C8: an analyze request missing text or host, and a batch request whose
\* texts is not an array, empty or longer than 100, is answered 400 before any
\* ledger, cache, classifier or analytics operation and any item processing.
C8_ValidationShortCircuits ==
    /\ \A t \in Tasks :
          (task[t].op = "analyze" /\ (task[t].text = <<>> \/ task[t].host = NoHost))
          => /\ task[t].pc = "done" /\ task[t].status = 400
             /\ task[t].tr = NoTrace /\ TxBy(t) = {} /\ RequestsBy(t) = {}
    /\ (batch.state # "none"
          /\ (~batch.isArray \/ batch.ntexts = 0 \/ batch.ntexts > BATCH_LIMIT))
       => /\ batch.status = 400 /\ batch.items = <<>>
          /\ \A t \in Tasks : task[t].op # "item"

C8_Witness ==
    /\ batch.status = 400 /\ batch.ntexts = BATCH_LIMIT + 1
    /\ \E t \in Tasks : task[t].status = 400 /\ task[t].host = NoHost

\* C9: a request that reads the cache while an entry written by a miss that
\* returned 200 is still there (not expired, not deleted) is a cache hit: no
\* classifier call, no cache write, answered 200 with cached:true, and exactly
\* one deduction call of a tenth of the cached totalCost for its host and the
\* cache key, or none at all when that fee is 0.
C9_HitAfterMiss ==
    \A t \in Tasks :
        task[t].tr.fresh
        => /\ task[t].cached
           /\ task[t].tr.classifier = 0 /\ task[t].tr.cacheSets = 0
           /\ IF task[t].result.cost.totalCost > 0
              THEN /\ Len(task[t].tr.deducts) = 1
                   /\ task[t].tr.deducts[1].host = task[t].host
                   /\ 10 * task[t].tr.deducts[1].amount = task[t].result.cost.totalCost
                   /\ task[t].tr.deducts[1].reference = task[t].key
              ELSE task[t].tr.deducts = <<>>
           /\ task[t].pc = "done" => task[t].status = 200 /\ task[t].body.cached
           /\ task[t].pc = "returned" => task[t].body.cached
           /\ task[t].pc # "rejected"

C9_Witness ==
    \E t \in Tasks :
        /\ task[t].tr.fresh /\ task[t].status = 200 /\ task[t].body.cached
        /\ Len(task[t].tr.deducts) = 1 /\ task[t].tr.deducts[1].amount = 5
        /\ \E u \in Tasks :
              /\ task[u].op = "analyze" /\ task[u].status = 200 /\ ~task[u].cached
              /\ task[u].key = task[t].key /\ task[u].text # task[t].text

\* C10 as stated: an analyze request that misses the cache and is answered
\* 200 has created exactly one deduct transaction, of amount -totalCost and
\* with the cache key as reference.
C10_MissCreatesOneDeduct ==
    \A t \in Tasks :
        (task[t].op = "analyze" /\ task[t].status = 200 /\ ~task[t].cached)
        => /\ Cardinality(TxBy(t)) = 1
           /\ \A i \in TxBy(t) :
                 /\ transactions[i].type = "deduct"
                 /\ transactions[i].amount = -task[t].result.cost.totalCost
                 /\ transactions[i].reference = task[t].key

\* C10 amended: such a request has made exactly one deductCredits call, for
\* its host, the full totalCost and the cache key; it has created at most one
\* transaction, and exactly one (a deduct of -totalCost referencing the cache
\* key, for that host) when the call returned success:true.
C10_MissDeductsOnce ==
    \A t \in Tasks :
        (task[t].op = "analyze" /\ task[t].status = 200 /\ ~task[t].cached)
        => /\ Len(task[t].tr.deducts) = 1
           /\ task[t].tr.deducts[1] = [host |-> task[t].host,
                                       amount |-> task[t].result.cost.totalCost,
                                       reference |-> task[t].key]
           /\ Cardinality(TxBy(t)) <= 1
           /\ task[t].deduction.success <=> Cardinality(TxBy(t)) = 1
           /\ \A i \in TxBy(t) :
                 /\ transactions[i].type = "deduct"
                 /\ transactions[i].host = task[t].host
                 /\ transactions[i].amount = -task[t].result.cost.totalCost
                 /\ transactions[i].reference = task[t].key

C10_Witness ==
    \E t \in Tasks :
        /\ task[t].op = "analyze" /\ task[t].status = 200 /\ ~task[t].cached
        /\ task[t].deduction.success /\ Cardinality(TxBy(t)) = 1

\* C11: a deductCredits result of success:false does not stop an analyze
\* request: with no other step failing (no store or network failure outside
\* the deduction, and on a miss a result that has its intents), the request
\* is answered 200 with the analysis, has recorded analytics, and on a miss
\* has written the cache entry.
C11_FailedDeductionIsNotFatal ==
    \A t \in Tasks :
        (/\ task[t].op = "analyze" /\ task[t].pc = "done"
         /\ task[t].deduction.called /\ ~task[t].deduction.success
         /\ \/ failures = 0
            \/ failures = 1 /\ task[t].deduction.error = "Error processing deduction"
         /\ task[t].cached \/ task[t].result.hasIntents)
        => /\ task[t].status = 200
           /\ task[t].body.result = task[t].result
           /\ task[t].body.cached = task[t].cached
           /\ task[t].tr.analytics = 1
           /\ task[t].tr.recorder # "skipped" => RequestsBy(t) # {}
           /\ ~task[t].cached => task[t].tr.cacheSets = 1
           /\ TxBy(t) = {}

C11_Witness ==
    \E t \in Tasks :
        /\ task[t].op = "analyze" /\ task[t].status = 200 /\ ~task[t].cached
        /\ task[t].deduction.error = "Insufficient balance"
        /\ task[t].tr.cacheSets = 1 /\ RequestsBy(t) # {}

\* C12: an analyze request whose classifier call failed, or whose classifier
\* content was not valid JSON, is answered 500 and has made no deduction call,
\* written no balance, created no transaction, written no cache entry and
\* recorded no analytics.
C12_ClassifierFailureLeavesNoTrace ==
    \A t \in Tasks :
        (task[t].op = "analyze" /\ task[t].tr.classifier = 1 /\ ~task[t].result.valid)
        => /\ task[t].pc = "done" /\ task[t].status = 500
           /\ task[t].tr.deducts = <<>> /\ task[t].tr.saves = 0 /\ TxBy(t) = {}
           /\ task[t].tr.cacheSets = 0
           /\ task[t].tr.analytics = 0 /\ RequestsBy(t) = {}

C12_Witness ==
    \E t \in Tasks :
        /\ task[t].op = "analyze" /\ task[t].tr.classifier = 1
        /\ task[t].status = 500
        /\ task[t].body.error = "Failed to parse OpenAI response"

\* C13: the step of checkBalance(host, required) that reads the host's
\* document without a storage error answers: no record -> not sufficient,
\* hostExists false; inactive record -> not sufficient, active false; else
\* sufficient iff balance >= required, hostExists and active true.  The step
\* changes no HostBalance and no BalanceTransaction.
C13_CheckBalance ==
    [][\A t \in Tasks :
          (task[t].pc = "cb_find" /\ task'[t].pc # "cb_find" /\ failures' = failures)
          => LET d == hostBalances[task[t].host]
                 r == task'[t].balanceCheck
             IN  /\ ~d.exists => ~r.sufficient /\ ~r.hostExists
                 /\ (d.exists /\ ~d.active) => ~r.sufficient /\ ~r.active
                 /\ (d.exists /\ d.active)
                       => /\ r.sufficient = (d.balance >= task[t].estimatedCost)
                          /\ r.hostExists /\ r.active
                 /\ hostBalances' = hostBalances
                 /\ transactions' = transactions]_vars

C13_Witness ==
    \E t \in Tasks :
        /\ task[t].op = "checkBalance" /\ task[t].pc = "done"
        /\ ~task[t].balanceCheck.sufficient /\ task[t].balanceCheck.hostExists
        /\ ~task[t].balanceCheck.active
        /\ hostBalances[task[t].host].balance >= task[t].estimatedCost

\* C14: a deductCredits call with a non-positive amount, or that finds no
\* record for the host, or whose amount is greater than the balance it finds,
\* returns success:false at that step with the HostBalance documents and the
\* transaction log unchanged, and writes nothing afterwards.
C14_RejectedDeductionChangesNothing ==
    /\ [](\A t \in Tasks :
            (/\ task[t].op = "deductCredits" /\ task[t].pc = "done"
             /\ task[t].error \in {"Invalid deduction amount",
                                   "Host not registered in the system",
                                   "Insufficient balance"})
            => ~task[t].success /\ task[t].tr.saves = 0 /\ TxBy(t) = {})
    /\ [][\A t \in Tasks :
            /\ (task[t].pc = "idle" /\ task'[t].op = "deductCredits"
                  /\ task'[t].amount <= 0)
               => /\ task'[t].pc = "done" /\ ~task'[t].success
                  /\ task'[t].error = "Invalid deduction amount"
                  /\ hostBalances' = hostBalances /\ transactions' = transactions
            /\ (/\ task[t].op = "deductCredits" /\ task[t].pc = "dc_find"
                /\ task'[t].pc # "dc_find"
                /\ \/ ~hostBalances[task[t].host].exists
                   \/ task[t].amount > hostBalances[task[t].host].balance)
               => /\ task'[t].pc = "done" /\ ~task'[t].success
                  /\ hostBalances' = hostBalances /\ transactions' = transactions]_vars

C14_Witness ==
    \E t \in Tasks :
        /\ task[t].op = "deductCredits" /\ task[t].pc = "done"
        /\ task[t].error = "Host not registered in the system"
        /\ \E u \in Tasks : /\ task[u].op = "deductCredits" /\ task[u].pc = "done"
                            /\ task[u].error = "Invalid deduction amount"

\* C15: the save of a deductCredits call lowers the host's stored balance by
\* exactly the amount and raises totalCreditsUsed by exactly the amount, and
\* the call's success appends one deduct transaction of -amount whose
\* balanceAfter is the balance that save stored.
C15_SuccessfulDeductionEffect ==
    [][\A t \in Tasks :
          LET h == task[t].host
          IN  /\ (task[t].pc = "dc_save" /\ task'[t].pc = "dc_tx")
                 => /\ hostBalances'[h].balance = hostBalances[h].balance - task[t].amount
                    /\ hostBalances'[h].totalCreditsUsed =
                           hostBalances[h].totalCreditsUsed + task[t].amount
              /\ (task[t].pc = "dc_tx" /\ task'[t].deduction.success)
                 => /\ Len(transactions') = Len(transactions) + 1
                    /\ transactions'[Len(transactions')].type = "deduct"
                    /\ transactions'[Len(transactions')].amount = -task[t].amount
                    /\ transactions'[Len(transactions')].balanceAfter = task[t].newBalance]_vars

\* C16: the save of an addCredits(host, amount) call with amount > 0 creates
\* the record with active true and balance = totalCreditsAdded = amount when
\* the host has none, and otherwise raises the stored balance and
\* totalCreditsAdded by amount; its success appends one add transaction with
\* balanceAfter the new balance.  With amount <= 0 the call fails at once and
\* changes nothing.
C16_AddCreditsEffect ==
    [][\A t \in Tasks :
          LET h == task[t].host
              d == hostBalances[h]
          IN  /\ (task[t].pc = "ac_save" /\ task'[t].pc = "ac_tx")
                 => IF d.exists
                    THEN /\ hostBalances'[h].balance = d.balance + task[t].amount
                         /\ hostBalances'[h].totalCreditsAdded =
                                d.totalCreditsAdded + task[t].amount
                    ELSE hostBalances'[h] =
                            [exists |-> TRUE, balance |-> task[t].amount,
                             totalCreditsAdded |-> task[t].amount,
                             totalCreditsUsed |-> 0, active |-> TRUE]
              /\ (task[t].pc = "ac_tx" /\ task'[t].success)
                 => /\ Len(transactions') = Len(transactions) + 1
                    /\ transactions'[Len(transactions')].type = "add"
                    /\ transactions'[Len(transactions')].amount = task[t].amount
                    /\ transactions'[Len(transactions')].balanceAfter = task[t].newBalance
              /\ (task[t].pc = "idle" /\ task'[t].op = "addCredits" /\ task'[t].amount <= 0)
                 => /\ task'[t].pc = "done" /\ ~task'[t].success
                    /\ hostBalances' = hostBalances /\ transactions' = transactions]_vars

\* C17: the save of a refundTransaction call on a deduct transaction of
\* amount -a raises the host's stored balance by a and lowers totalCreditsUsed
\* by a, and its success appends one refund transaction of +a whose
\* balanceAfter is the new balance and whose reference is the original id.
C17_RefundEffect ==
    [][\A t \in Tasks :
          LET h == task[t].host
              a == -transactions[task[t].txId].amount
          IN  /\ (task[t].pc = "rt_save" /\ task'[t].pc = "rt_tx")
                 => /\ hostBalances'[h].balance = hostBalances[h].balance + a
                    /\ hostBalances'[h].totalCreditsUsed =
                           hostBalances[h].totalCreditsUsed - a
              /\ (task[t].pc = "rt_tx" /\ task'[t].success)
                 => /\ Len(transactions') = Len(transactions) + 1
                    /\ transactions'[Len(transactions')].type = "refund"
                    /\ transactions'[Len(transactions')].amount = a
                    /\ transactions'[Len(transactions')].balanceAfter = task[t].newBalance
                    /\ transactions'[Len(transactions')].reference =
                           <<ToString(task[t].txId)>>]_vars

\* C18: a refundTransaction call whose id names no transaction, or a
\* transaction of type add or refund, returns success:false and has written
\* no balance and no transaction.
C18_OnlyDeductionsRefundable ==
    \A t \in Tasks :
        (/\ task[t].op = "refundTransaction" /\ task[t].pc # "rt_findtx"
         /\ \/ task[t].txId \notin 1..Len(transactions)
            \/ transactions[task[t].txId].type \in {"add", "refund"})
        => /\ task[t].pc = "done" /\ ~task[t].success
           /\ task[t].error # "none"
           /\ task[t].tr.saves = 0 /\ TxBy(t) = {}

C18_Witness ==
    \E t \in Tasks :
        /\ task[t].op = "refundTransaction" /\ task[t].pc = "done"
        /\ task[t].txId \in 1..Len(transactions)
        /\ transactions[task[t].txId].type = "add"
        /\ task[t].error = "Only deduction transactions can be refunded"

\* refund transactions that reference transaction id
RefundsOf(id) ==
    {i \in 1..Len(transactions) :
        transactions[i].type = "refund" /\ transactions[i].reference = <<ToString(id)>>}

\* C19: a refundTransaction call made on a deduct transaction that has
\* already been refunded, with no storage failure, goes through every step
\* again: it raises the stored balance by the deducted amount, lowers
\* totalCreditsUsed by it, appends another refund transaction and succeeds.
C19_RefundIsNotIdempotent ==
    [][\A t \in Tasks :
          LET id == task[t].txId
              h  == task[t].host
              a  == -transactions[id].amount
          IN  (/\ task[t].op = "refundTransaction" /\ RefundsOf(id) # {}
               /\ task'[t] # task[t] /\ failures' = failures)
              => /\ task[t].pc = "rt_findtx" => task'[t].pc = "rt_findhost"
                 /\ task[t].pc = "rt_findhost" => task'[t].pc = "rt_save"
                 /\ task[t].pc = "rt_save"
                    => /\ task'[t].pc = "rt_tx"
                       /\ hostBalances'[h].balance = hostBalances[h].balance + a
                       /\ hostBalances'[h].totalCreditsUsed =
                              hostBalances[h].totalCreditsUsed - a
                 /\ task[t].pc = "rt_tx"
                    => /\ task'[t].pc = "done" /\ task'[t].success
                       /\ RefundsOf(id)' = RefundsOf(id) \cup {Len(transactions) + 1}
                       /\ transactions'[Len(transactions')].amount = a]_vars

C19_Witness ==
    \E id \in 1..Len(transactions) :
        /\ transactions[id].type = "deduct" /\ transactions[id].amount = -40
        /\ Cardinality(RefundsOf(id)) = 2
        /\ hostBalances[transactions[id].host].balance = 100
        /\ \A t \in Tasks : task[t].op = "refundTransaction" /\ task[t].success

LedgerOps == {"checkBalance", "deductCredits", "addCredits", "refundTransaction",
              "updateHostStatus", "getHostBalance", "getTransactionHistory",
              "getAllHosts"}

\* C20: a ledger call never throws: it is never rejected, a call that
\* returned without success carries an error, and a step at which the store
\* fails makes the call return success:false (sufficient:false) with an error.
C20_LedgerNeverThrows ==
    /\ [](\A t \in Tasks :
            task[t].op \in LedgerOps
            => /\ task[t].pc # "rejected"
               /\ (task[t].pc = "done" /\ ~task[t].success) => task[t].error # "none")
    /\ [][\A t \in Tasks :
            (task[t].op \in LedgerOps /\ task'[t] # task[t] /\ failures' = failures + 1)
            => /\ task'[t].pc = "done" /\ ~task'[t].success
               /\ task'[t].error \in {"Error checking balance",
                                      "Error processing deduction",
                                      "Error processing credit addition",
                                      "Error processing refund",
                                      "Error updating host status",
                                      "Error retrieving balance information",
                                      "Error retrieving transaction history",
                                      "Error retrieving host information"}]_vars

C20_Witness ==
    \E t \in Tasks :
        /\ task[t].op = "refundTransaction" /\ task[t].pc = "done"
        /\ task[t].tr.saves = 1 /\ task[t].error = "Error processing refund"

\* C21: a HostBalance record comes into being only in the save of addCredits
\* for that host, and every BalanceTransaction is of a host that has a record
C21_RecordsOnlyFromAddCredits ==
    /\ [](\A i \in 1..Len(transactions) :
            /\ transactions[i].host \in Hosts
            /\ hostBalances[transactions[i].host].exists)
    /\ [][\A h \in Hosts :
            (~hostBalances[h].exists /\ hostBalances'[h].exists)
            => \E t \in Tasks : /\ task[t].op = "addCredits"
                                /\ task[t].host = h
                                /\ task[t].pc = "ac_save"
                                /\ task'[t].pc = "ac_tx"]_vars

\* a deduction refused for a host without a record, which addCredits then creates
C21_Witness ==
    \E t, u \in Tasks :
        /\ task[t].op = "deductCredits"
        /\ task[t].pc = "done"
        /\ task[t].error = "Host not registered in the system"
        /\ TxBy(t) = {}
        /\ task[u].op = "addCredits"
        /\ task[u].host = task[t].host
        /\ task[u].pc = "done"
        /\ task[u].success
        /\ hostBalances[task[u].host].exists
        /\ Cardinality(TxBy(u)) = 1

\* C22: determineTTL gives the TTL of the first rule that matches: 3600 for news
\* or current_events, else 604800 for factual or reference, else 43200 for a
\* negative sentiment with score below -0.5, else the default (86400 unless
\* CACHE_TTL configures another)
C22_FirstMatchWins ==
    (probe.fn = "determineTTL" /\ probe.done)
    => LET r     == probe.args
           timed == "news" \in r.intents \/ "current_events" \in r.intents
           fixed == "factual" \in r.intents \/ "reference" \in r.intents
           sharp == r.sentiment = "negative" /\ r.score < -5
       IN  /\ timed => probe.out = 3600
           /\ (~timed /\ fixed) => probe.out = 604800
           /\ (~timed /\ ~fixed /\ sharp) => probe.out = 43200
           /\ (~timed /\ ~fixed /\ ~sharp)
              => probe.out = IF probe.CACHE_TTL = 0 THEN 86400 ELSE probe.CACHE_TTL

\* intents {news} with a negative score of -0.9 got 3600
C22_Witness ==
    /\ probe.fn = "determineTTL"
    /\ probe.done
    /\ probe.args.intents = {"news"}
    /\ probe.args.sentiment = "negative"
    /\ probe.args.score = -9
    /\ probe.out = 3600

\* C23: two requests get the same cache key exactly when their texts normalize
\* to the same string and their models are equal
C23_SameKeyIffSameTextAndModel ==
    (probe.fn = "generateCacheKey" /\ probe.done)
    => (probe.out[1] = probe.out[2]
        <=> /\ cleanString(probe.args.text1) = cleanString(probe.args.text2)
            /\ probe.args.model1 = probe.args.model2)

\* C24: calculateCost gives totalCost = inputCost + outputCost and
\* totalPrice = 1.25 x totalCost, each to within one step of the sixth decimal
\* (10 units), totalPrice >= totalCost >= 0, and prices a model that is not in
\* the table as it prices the default model
C24_CostArithmetic ==
    (probe.fn = "calculateCost" /\ probe.done)
    => LET c    == probe.out
           a    == probe.args
           diff == c.totalCost - (c.inputCost + c.outputCost)
           gap4 == 4 * c.totalPrice - 5 * c.totalCost
       IN  /\ ~c.nan
           /\ diff <= 10 /\ -diff <= 10
           /\ gap4 <= 40 /\ -gap4 <= 40
           /\ c.totalPrice >= c.totalCost
           /\ c.totalCost >= 0
           /\ a.model \notin KnownModels
              => c = calculateCostRounded(a.usage, DEFAULT_MODEL, a.up)

\* C25: when a DELETE /api/cache by pattern or a flush has been answered, every
\* key beginning with 'session' or 'analytics' that was there when it arrived
\* is still there
C25_SystemKeysSurvive ==
    (cacheAdmin.state = "done" /\ cacheAdmin.mode \in {"pattern", "flush"})
    => \A k \in cacheAdmin.before : SystemKey(k) => k \in DOMAIN redis

AnalyticsPcs == {"an_rec", "an_hourly", "an_host"}

\* C26: the answer of a request does not wait for recordRequest: while the
\* recorder of a request is running, the request already has its answer
C26_AnswerDoesNotAwaitAnalytics ==
    \A t \in Tasks : task[t].tr.recorder = "running" => Finished(t)

\* C27: whatever becomes of the recorder (it succeeds, fails at one of its
\* writes, or is skipped), its steps leave the ledger and the cache as they
\* are, and the request is answered with the status and body it had coming
C27_AnalyticsNeverChangesOutcome ==
    [][\A t \in Tasks :
         (task[t].pc \in AnalyticsPcs /\ task'[t].pc # task[t].pc)
         => /\ hostBalances' = hostBalances
            /\ transactions' = transactions
            /\ redis' = redis
            /\ \/ task'[t].pc \in AnalyticsPcs
               \/ /\ task'[t].pc = Respond(task[t]).pc
                  /\ task'[t].status = Respond(task[t]).status
                  /\ task'[t].body = Respond(task[t]).body]_vars

\* a miss answered 200, charged and cached, whose recorder failed
C27_Witness ==
    \E t \in Tasks :
        /\ task[t].op = "analyze" /\ task[t].pc = "done" /\ task[t].status = 200
        /\ ~task[t].cached
        /\ task[t].tr.recorder = "failed"
        /\ task[t].tr.cacheSets = 1
        /\ Cardinality(TxBy(t)) = 1

\* the requests of host h whose recorder ran to its end
Recorded(h) == {t \in Tasks : task[t].host = h /\ task[t].tr.recorder = "ok"}

FeeCharged(t) == IF task[t].tr.saves > 0 THEN task[t].amount ELSE 0

\* C29: balanceRemaining of a 200 answer of POST /api/analyze: on a miss the
\* balance the deduction returned, or the checked balance less totalCost when
\* the deduction failed; on a hit the checked balance less the fee charged
C29_BalanceRemaining ==
    \A t \in Tasks :
        (task[t].op = "analyze" /\ task[t].pc = "done" /\ task[t].status = 200)
        => task[t].body.balanceRemaining =
             IF ~task[t].cached
             THEN IF task[t].deduction.success THEN task[t].deduction.balance
                  ELSE task[t].balanceCheck.balance - task[t].result.cost.totalCost
             ELSE task[t].balanceCheck.balance - FeeCharged(t)

\* C30: a request that has invoked deductCredits has before that got
\* sufficient = true from a checkBalance for the same host
C30_CheckPrecedesDeduction ==
    \A t \in Tasks :
        (task[t].op \in {"analyze", "item"} /\ task[t].tr.deducts # <<>>)
        => /\ task[t].tr.checks # <<>>
           /\ task[t].tr.checks[1].sufficient
           /\ \A i \in 1..Len(task[t].tr.deducts) :
                 task[t].tr.deducts[i].host = task[t].tr.checks[1].host

\* a batch item and an analyze request that each deducted after their check
C30_Witness ==
    \E t, u \in Tasks :
        /\ task[t].op = "analyze" /\ task[u].op = "item"
        /\ Len(task[t].tr.deducts) = 1 /\ Len(task[u].tr.deducts) = 1
        /\ task[t].tr.checks[1].sufficient /\ task[u].tr.checks[1].sufficient

\* C31: a POST /api/analyze request that has answered has answered 200, 400,
\* 402 or 500, and a 500 carries an error and its details
C31_AnalyzeAnswers ==
    \A t \in Tasks :
        (task[t].op = "analyze" /\ task[t].pc = "done")
        => /\ task[t].status \in {200, 400, 402, 500}
           /\ task[t].status = 500
              => task[t].body.error # "none" /\ task[t].body.details # "none"

\* C32: no step changes the value stored under a cache key that stays stored
C32_NoUpdateInPlace ==
    [][\A k \in DOMAIN redis \cap DOMAIN redis' : redis'[k] = redis[k]]_vars

\* C33: misses are not coalesced: every request that writes the cache has
\* called the classifier once and attempted one deduction of the full cost, and
\* its write leaves its own result under the key, whatever was stored there
C33_MissesNotCoalesced ==
    [][\A t \in Tasks :
         (task[t].pc = "cache_set" /\ task'[t].pc = "an_rec")
         => /\ task[t].tr.classifier = 1
            /\ Len(task[t].tr.deducts) = 1
            /\ task[t].tr.deducts[1].amount = task[t].result.cost.totalCost
            /\ task[t].key \in DOMAIN redis'
            /\ redis'[task[t].key] = task[t].result]_vars

\* two misses of one key, neither entry expired or deleted since, with
\* different results: both called the classifier, both wrote, one result remains
C33_Witness ==
    \E t, u \in Tasks :
        /\ t # u
        /\ task[t].key = task[u].key
        /\ task[t].pc = "done" /\ task[t].status = 200 /\ ~task[t].cached
        /\ task[u].pc = "done" /\ task[u].status = 200 /\ ~task[u].cached
        /\ task[t].tr.live /\ task[u].tr.live
        /\ task[t].tr.classifier = 1 /\ task[u].tr.classifier = 1
        /\ task[t].tr.cacheSets = 1 /\ task[u].tr.cacheSets = 1
        /\ task[t].result # task[u].result
        /\ redis[task[u].key] = task[u].result

\* the items of the batch turned away at the balance pre-check
TurnedAway == {i \in 1..Len(batch.items) :
                  /\ task[batch.items[i]].tr.checks # <<>>
                  /\ ~task[batch.items[i]].tr.checks[1].sufficient}

\* C34: in the summary of a batch, the items turned away at the balance
\* pre-check are the balanceErrors, the other failed items the otherErrors,
\* and the two add up to failed
C34_BalanceErrorsCounted ==
    (batch.state = "responded" /\ batch.status = 200)
    => /\ batch.summary.errors.balanceErrors = Cardinality(TurnedAway)
       /\ batch.summary.errors.otherErrors
              = batch.summary.failed - Cardinality(TurnedAway)
       /\ batch.summary.errors.balanceErrors + batch.summary.errors.otherErrors
              = batch.summary.failed

\* C35: no deduction writes a reduced balance, and none records its
\* transaction, for a host whose stored active flag is false
C35_InactiveHostNeverCharged ==
    [][\A t \in Tasks :
         (\/ task[t].pc = "dc_save" /\ task'[t].pc = "dc_tx"
          \/ task[t].pc = "dc_tx" /\ Len(transactions') > Len(transactions))
         => hostBalances[task[t].host].active]_vars

\* C36: a request that ran with no other call beside it and with no storage
\* failure, and that called deductCredits after its sufficient check, had the
\* deduction succeed
C36_CheckedDeductionSucceeds ==
    \A t \in Tasks :
        (/\ task[t].op \in {"analyze", "item"}
         /\ task[t].deduction.called
         /\ failures = 0
         /\ \A u \in Tasks \ {t} : task[u].pc = "idle")
        => task[t].deduction.success

\* success, payment-required or failure; none while the request is running
OutcomeClass(t) ==
    IF task[t].op = "analyze" /\ task[t].pc = "done"
    THEN CASE task[t].status = 200 -> "success"
           [] task[t].status = 402 -> "payment-required"
           [] OTHER -> "failure"
    ELSE IF task[t].op = "item" /\ task[t].pc = "returned"
    THEN IF task[t].body.error = "none" THEN "success" ELSE "payment-required"
    ELSE IF task[t].op = "item" /\ task[t].pc = "rejected" THEN "failure"
    ELSE "none"

\* the transactions and the analytics events of a request, without their author
Charges(t) == {[host |-> transactions[i].host, amount |-> transactions[i].amount,
                type |-> transactions[i].type, reference |-> transactions[i].reference] :
                   i \in TxBy(t)}
Events(t) == {[host |-> e.host, key |-> e.key, cached |-> e.cached] : e \in RequestsBy(t)}

\* an analyze request and the item of a one-item batch with the same inputs
SameInputs(t, u) ==
    /\ task[t].op = "analyze" /\ task[u].op = "item"
    /\ Len(batch.items) = 1
    /\ task[t].text = task[u].text
    /\ task[t].host = task[u].host
    /\ task[t].model = task[u].model

\* both met the same balance, the same cache content, the same classifier
\* answer and the same fate of their ledger and analytics calls
SameRun(t, u) ==
    /\ task[t].tr.checks = task[u].tr.checks
    /\ task[t].balanceCheck = task[u].balanceCheck
    /\ task[t].cached = task[u].cached
    /\ task[t].result = task[u].result
    /\ task[t].deduction.called = task[u].deduction.called
    /\ task[t].deduction.success = task[u].deduction.success
    /\ task[t].tr.recorder = task[u].tr.recorder
    /\ task[t].tr.cacheSets = task[u].tr.cacheSets

\* C37: an analyze request and the item of a one-item batch with the same
\* inputs have the same outcome class, the same transactions, the same cache
\* key and the same analytics event: where the one is refused before it looks
\* at any state, the other fails without a charge; where both met the same
\* state and the same answers, they agree
C37_BatchRunsSinglePipeline ==
    \A t, u \in Tasks :
        SameInputs(t, u)
        => /\ (task[t].pc = "done" /\ task[t].status = 400)
              => /\ OutcomeClass(u) \in {"none", "failure"}
                 /\ Charges(u) = {}
           /\ (failures = 0 /\ OutcomeClass(t) # "none" /\ OutcomeClass(u) # "none"
                 /\ SameRun(t, u))
              => /\ OutcomeClass(t) = OutcomeClass(u)
                 /\ Charges(t) = Charges(u)
                 /\ task[t].key = task[u].key
                 /\ Events(t) = Events(u)

\* C38: every HostBalance record has balance = totalCreditsAdded - totalCreditsUsed
C38_AccountingIdentity ==
    \A h \in Hosts :
        hostBalances[h].exists
        => hostBalances[h].balance
               = hostBalances[h].totalCreditsAdded - hostBalances[h].totalCreditsUsed

\* C39: an addCredits, deductCredits or refundTransaction call that returned
\* success: false has not saved the host's balance record
C39_FailedCallChangesNothing ==
    \A t \in Tasks :
        (/\ task[t].op \in {"addCredits", "deductCredits", "refundTransaction"}
         /\ task[t].pc = "done"
         /\ ~task[t].success)
        => task[t].tr.saves = 0

\* C40: the result in a 200 answer to a request of host h, and in a fulfilled
\* item of a batch of host h, names no host but h
C40_TenantIsolation ==
    \A t \in Tasks :
        (\/ task[t].op = "analyze" /\ task[t].pc = "done" /\ task[t].status = 200
         \/ task[t].op = "item" /\ task[t].pc = "returned" /\ task[t].body.error = "none")
        => task[t].body.result.host \in {NoHost, task[t].host}

====
